---- MODULE Spec2Model ----
(***************************************************************************)
(* Model of the in-memory order service                                    *)
(* (src/server/services/orderService.ts) and of the request schemas        *)
(* (src/shared/orders.ts).                                                 *)
(*                                                                         *)
(* Representation.                                                         *)
(*  - An Order / Notification object is a record with the fields of the    *)
(*    source.  An optional property whose value is `undefined` holds the   *)
(*    string Undefined.                                                    *)
(*  - A request payload (UpdateOrderRequest) is a record whose DOMAIN is   *)
(*    the set of properties the caller supplied, so that the object        *)
(*    spread {...existingOrder, ...updateData} is Spread below.            *)
(*  - An ISO-8601 timestamp is the number of minutes since                 *)
(*    2024-01-01T00:00:00Z (two timestamps are equal strings iff they are  *)
(*    the same number).                                                    *)
(*  - An amount (orderAmount) is a number of cents; a sum of amounts is    *)
(*    the binary64 value the additions yield (see Numbers below).          *)
(*  - The variable result holds what the last call returned: an Order or   *)
(*    Null (for null) as it is, a boolean b as [ok |-> b], an array a as   *)
(*    [list |-> a], and the object of getOrders as it is.                  *)
(***************************************************************************)
EXTENDS Integers, Sequences, FiniteSets, TLC

\* ------------------------------------------------------------------------
\* Bounds of the model
\* ------------------------------------------------------------------------

\* number of service calls in one run
MaxCalls == 2

\* number of times the wall clock is seen to advance in one run
MaxTicks == 1

\* the wall clock when the service is constructed (2024-01-31T23:59Z)
StartTime == 44639

\* long run: number of leading calls that each change the status of ORD-001
FillCalls == 98

\* long run: number of service calls in one run
LongRunCalls == 103

\* analytics run: number of service calls in one run
AnalyticsCalls == 6

\* the number of calls of the monthly run
MonthlyCalls == 4

\* customers run: number of leading calls that each create an order of a
\* customer not seen before
NewCustomerCalls == 6

\* customers run: number of service calls in one run
CustomerCalls == 9

\* concurrent run: number of requests in one run
ConcurrentCalls == 3

\* HTTP run: number of requests in one run
HttpCalls == 2

\* ------------------------------------------------------------------------
\* Program constants
\* ------------------------------------------------------------------------

\* createNotification: "Keep only last 100 notifications"
MaxNotifications == 100

\* createOrder: padStart(3, '0')
OrderIdWidth == 3

Undefined == "undefined"

Null == [null |-> TRUE]

OrderStatus == {"pending", "processing", "completed", "cancelled"}

\* ------------------------------------------------------------------------
\* The seed store
\* ------------------------------------------------------------------------

sampleOrders ==
    << [orderId |-> "ORD-001", customerName |-> "John Smith",
        customerEmail |-> "john.smith@email.com", orderAmount |-> 129999,
        orderDate |-> 20790,
        description |-> "High-performance laptop with extended warranty",
        status |-> "completed",
        invoiceFileUrl |-> "/uploads/invoices/invoice-001.pdf",
        invoiceFileName |-> "invoice-001.pdf",
        paymentMethod |-> "Credit Card (**** 4242)",
        shippingAddress |-> "123 Main St, Springfield, IL 62701, USA",
        notes |-> << "Order received and confirmed",
                     "Payment processed successfully",
                     "Items prepared for shipping",
                     "Order shipped via FedEx Express",
                     "Delivered successfully" >>,
        createdAt |-> 20790, updatedAt |-> 25485],
       [orderId |-> "ORD-002", customerName |-> "Sarah Johnson",
        customerEmail |-> "sarah.j@email.com", orderAmount |-> 59950,
        orderDate |-> 19580,
        description |-> "Professional camera kit",
        status |-> "processing",
        invoiceFileUrl |-> "/uploads/invoices/invoice-002.pdf",
        invoiceFileName |-> "invoice-002.pdf",
        paymentMethod |-> "PayPal",
        shippingAddress |-> "456 Oak Ave, Boston, MA 02101, USA",
        notes |-> << "Order received and confirmed",
                     "Payment processed successfully",
                     "Items being prepared for shipping" >>,
        createdAt |-> 19580, updatedAt |-> 20715],
       [orderId |-> "ORD-003", customerName |-> "Mike Davis",
        customerEmail |-> "mike.davis@email.com", orderAmount |-> 215000,
        orderDate |-> 17835,
        description |-> "Premium gaming setup with accessories",
        status |-> "pending",
        invoiceFileUrl |-> "/uploads/invoices/invoice-003.pdf",
        invoiceFileName |-> "invoice-003.pdf",
        paymentMethod |-> "Bank Transfer",
        shippingAddress |-> "789 Pine Rd, Seattle, WA 98101, USA",
        notes |-> << "Order received and awaiting payment confirmation" >>,
        createdAt |-> 17835, updatedAt |-> 17835],
       [orderId |-> "ORD-004", customerName |-> "Emily Wilson",
        customerEmail |-> "emily.w@email.com", orderAmount |-> 79999,
        orderDate |-> 16845,
        description |-> "Smart home automation bundle",
        status |-> "completed",
        invoiceFileUrl |-> "/uploads/invoices/invoice-004.pdf",
        invoiceFileName |-> "invoice-004.pdf",
        paymentMethod |-> "Credit Card (**** 1234)",
        shippingAddress |-> "321 Cedar St, Denver, CO 80201, USA",
        notes |-> << "Order received and confirmed",
                     "Payment processed successfully",
                     "Items shipped and delivered" >>,
        createdAt |-> 16845, updatedAt |-> 19340],
       [orderId |-> "ORD-005", customerName |-> "David Brown",
        customerEmail |-> "david.brown@email.com", orderAmount |-> 159900,
        orderDate |-> 15090,
        description |-> "Professional audio equipment",
        status |-> "cancelled",
        invoiceFileUrl |-> "/uploads/invoices/invoice-005.pdf",
        invoiceFileName |-> "invoice-005.pdf",
        paymentMethod |-> "Credit Card (**** 5678)",
        shippingAddress |-> "654 Birch Ave, Austin, TX 73301, USA",
        notes |-> << "Order received",
                     "Customer requested cancellation",
                     "Refund processed" >>,
        createdAt |-> 15090, updatedAt |-> 16695] >>

\* ------------------------------------------------------------------------
\* State
\* ------------------------------------------------------------------------

VARIABLES
    orders,         \* OrderService.orders
    notifications,  \* OrderService.notifications
    now,            \* what new Date() reads
    uuids,          \* how many identifiers uuidv4() has handed out
    call,           \* the service call that was made last, with its arguments
    result,         \* what that call returned
    calls,          \* number of service calls made
    ticks,          \* number of clock advances seen
    inflight,       \* the bulkUpdateOrders calls suspended at their await
    layout,         \* the state of the Layout component of one browser
    network         \* the requests and responses of that browser under way

vars ==
    <<orders, notifications, now, uuids, call, result, calls, ticks,
      inflight, layout, network>>

\* ------------------------------------------------------------------------
\* Helpers: JavaScript built-ins used by the service
\* ------------------------------------------------------------------------

\* String.prototype.padStart(width, "0")
RECURSIVE PadStart(_, _)
PadStart(s, width) ==
    IF Len(s) >= width THEN s ELSE PadStart("0" \o s, width)

\* Array.prototype.findIndex(order => order.orderId === orderId);
\* indices are 1-based here and 0 stands for -1
FindIndex(os, orderId) ==
    IF \E i \in 1..Len(os) : os[i].orderId = orderId
    THEN CHOOSE i \in 1..Len(os) :
            /\ os[i].orderId = orderId
            /\ \A j \in 1..(i - 1) : os[j].orderId # orderId
    ELSE 0

\* object spread {...a, ...b}
Spread(a, b) ==
    [f \in DOMAIN a \cup DOMAIN b |-> IF f \in DOMAIN b THEN b[f] ELSE a[f]]

\* the quotient n / d of two numbers, kept as the pair it is computed from
\* (d > 0); a number that need not be whole is held as such a pair
Ratio(n, d) == [num |-> n, den |-> d]

\* the whole number n as a pair
Whole(n) == Ratio(n, 1)

\* ToIntegerOrInfinity: the fraction is dropped, towards zero
ToIntegerOrInfinity(r) ==
    IF r.num >= 0 THEN r.num \div r.den ELSE -((-r.num) \div r.den)

\* Array.prototype.slice(0, n)
SliceTo(s, n) == IF Len(s) > n THEN SubSeq(s, 1, n) ELSE s

\* uuidv4(): the k-th identifier handed out; identifiers never repeat
Uuid(k) == "uuid-" \o ToString(k)

\* ------------------------------------------------------------------------
\* createNotification
\* ------------------------------------------------------------------------

\* a createNotification that adds the notification at the end of the list
createNotificationPush(ns, notificationData, id, t) ==
    LET notification ==
            Spread([id |-> id, timestamp |-> t, read |-> FALSE],
                   notificationData)
        pushed == Append(ns, notification)
    IN  IF Len(pushed) > MaxNotifications
        THEN SubSeq(pushed, 1, MaxNotifications)
        ELSE pushed

\* a createNotification that never trims the list
createNotificationUntrimmed(ns, notificationData, id, t) ==
    <<Spread([id |-> id, timestamp |-> t, read |-> FALSE], notificationData)>>
        \o ns

\* The notification list after createNotification(notificationData), when
\* uuidv4() returns id and the clock reads t.
createNotification(ns, notificationData, id, t) ==
    LET notification ==
            Spread([id |-> id, timestamp |-> t, read |-> FALSE],
                   notificationData)
        unshifted == <<notification>> \o ns
    IN  IF Len(unshifted) > MaxNotifications
        THEN SubSeq(unshifted, 1, MaxNotifications)
        ELSE unshifted

\* ------------------------------------------------------------------------
\* createOrder
\* ------------------------------------------------------------------------

\* the status createOrder gives a new order
InitialStatus == "pending"

\* a createOrder that seeds no note
InitialNotesNone == << >>

\* the notes createOrder gives a new order
InitialNotes == << "Order received and awaiting confirmation" >>

\* the identifier createOrder computes from the size of the store
NewOrderId(os) == "ORD-" \o PadStart(ToString(Len(os) + 1), OrderIdWidth)

\* the order object createOrder builds
NewOrder(os, orderData, invoiceFile, t) ==
    [orderId |-> NewOrderId(os),
     customerName |-> orderData.customerName,
     customerEmail |-> IF "customerEmail" \in DOMAIN orderData
                       THEN orderData.customerEmail ELSE Undefined,
     orderAmount |-> orderData.orderAmount,
     orderDate |-> t,
     description |-> IF "description" \in DOMAIN orderData
                     THEN orderData.description ELSE Undefined,
     status |-> InitialStatus,
     invoiceFileUrl |-> IF invoiceFile # Null
                        THEN "/uploads/invoices/" \o invoiceFile.filename
                        ELSE Undefined,
     invoiceFileName |-> IF invoiceFile # Null
                         THEN invoiceFile.originalname ELSE Undefined,
     paymentMethod |-> IF "paymentMethod" \in DOMAIN orderData
                       THEN orderData.paymentMethod ELSE Undefined,
     shippingAddress |-> IF "shippingAddress" \in DOMAIN orderData
                         THEN orderData.shippingAddress ELSE Undefined,
     notes |-> InitialNotes,
     createdAt |-> t,
     updatedAt |-> t]

\* requests accepted by CreateOrderSchema that the model issues
CreateRequests ==
    { [customerName |-> "Ann Lee", orderAmount |-> 4500],
      [customerName |-> "John Smith", customerEmail |-> "JS@Email.com",
       orderAmount |-> 79999, description |-> "Second laptop",
       paymentMethod |-> "PayPal",
       shippingAddress |-> "123 Main St, Springfield, IL 62701, USA"] }

\* the optional uploaded file (Express.Multer.File)
InvoiceFiles ==
    { Null, [filename |-> "invoice-17-42.pdf", originalname |-> "scan.pdf"] }

CreateOrder ==
    /\ calls < MaxCalls
    /\ \E orderData \in CreateRequests, invoiceFile \in InvoiceFiles :
          LET newOrder == NewOrder(orders, orderData, invoiceFile, now)
          IN  /\ orders' = <<newOrder>> \o orders
              /\ notifications' =
                    createNotification(
                        notifications,
                        [type |-> "order_created",
                         title |-> "New Order Created",
                         message |-> "Order " \o newOrder.orderId
                                     \o " has been created for "
                                     \o orderData.customerName,
                         orderId |-> newOrder.orderId],
                        Uuid(uuids + 1), now)
              /\ uuids' = uuids + 1
              /\ call' = [op |-> "createOrder", orderData |-> orderData,
                          invoiceFile |-> invoiceFile]
              /\ result' = newOrder
    /\ calls' = calls + 1
    /\ UNCHANGED <<now, ticks, inflight, layout, network>>

\* ------------------------------------------------------------------------
\* updateOrder
\* ------------------------------------------------------------------------

\* `Status changed from ${existingOrder.status} to ${updateData.status}`
StatusChangeNote(oldStatus, newStatus) ==
    "Status changed from " \o oldStatus \o " to " \o newStatus

\* updateData.status && updateData.status !== existingOrder.status
\* (every status is a non-empty string, hence truthy)
StatusChanges(existingOrder, updateData) ==
    /\ "status" \in DOMAIN updateData
    /\ updateData.status # existingOrder.status

\* an updateOrder that appends the status note to the merged notes, so
\* that notes of the payload survive a status change
UpdatedOrderMergedNotes(existingOrder, updateData, t) ==
    LET merged ==
            [Spread(existingOrder, updateData) EXCEPT !.updatedAt = t]
    IN  IF StatusChanges(existingOrder, updateData)
        THEN [merged EXCEPT !.notes =
                 merged.notes \o
                 << StatusChangeNote(existingOrder.status,
                                     updateData.status) >>]
        ELSE merged

\* an updateOrder that also sets orderDate to the time of the call
UpdatedOrderRedated(existingOrder, updateData, t) ==
    LET merged ==
            [Spread(existingOrder, updateData) EXCEPT !.updatedAt = t,
                                                      !.orderDate = t]
    IN  IF StatusChanges(existingOrder, updateData)
        THEN [merged EXCEPT !.notes =
                 existingOrder.notes \o
                 << StatusChangeNote(existingOrder.status,
                                     updateData.status) >>]
        ELSE merged

\* an updateOrder that sets updatedAt only when the status changes
UpdatedOrderStampedOnStatusChange(existingOrder, updateData, t) ==
    LET merged == Spread(existingOrder, updateData)
    IN  IF StatusChanges(existingOrder, updateData)
        THEN [merged EXCEPT !.updatedAt = t,
                            !.notes =
                               existingOrder.notes \o
                               << StatusChangeNote(existingOrder.status,
                                                   updateData.status) >>]
        ELSE merged

\* the object updateOrder stores and returns
UpdatedOrder(existingOrder, updateData, t) ==
    LET merged ==
            [Spread(existingOrder, updateData) EXCEPT !.updatedAt = t]
    IN  IF StatusChanges(existingOrder, updateData)
        THEN [merged EXCEPT !.notes =
                 existingOrder.notes \o
                 << StatusChangeNote(existingOrder.status,
                                     updateData.status) >>]
        ELSE merged

\* an updateOrder that names the notification after the new status, using
\* the order_completed and order_cancelled types of NotificationSchema
UpdateNotificationsByStatus(ns, existingOrder, orderId, updateData, id, t) ==
    IF StatusChanges(existingOrder, updateData)
    THEN createNotification(
             ns,
             [type |-> IF updateData.status = "completed"
                       THEN "order_completed"
                       ELSE IF updateData.status = "cancelled"
                            THEN "order_cancelled" ELSE "order_updated",
              title |-> "Order Status Updated",
              message |-> "Order " \o orderId \o " status changed to "
                          \o updateData.status,
              orderId |-> orderId],
             id, t)
    ELSE ns

\* an updateOrder that notifies whenever the payload carries a status,
\* changed or not
UpdateNotificationsAnyStatus(ns, existingOrder, orderId, updateData, id, t) ==
    IF "status" \in DOMAIN updateData
    THEN createNotification(
             ns,
             [type |-> "order_updated",
              title |-> "Order Status Updated",
              message |-> "Order " \o orderId \o " status changed to "
                          \o updateData.status,
              orderId |-> orderId],
             id, t)
    ELSE ns

\* the notification list after updateOrder found existingOrder
UpdateNotifications(ns, existingOrder, orderId, updateData, id, t) ==
    IF StatusChanges(existingOrder, updateData)
    THEN createNotification(
             ns,
             [type |-> "order_updated",
              title |-> "Order Status Updated",
              message |-> "Order " \o orderId \o " status changed to "
                          \o updateData.status,
              orderId |-> orderId],
             id, t)
    ELSE ns

\* an updateOrder that takes the order out of the store and puts the updated
\* order in front
updateOrderMovingToFront(st, orderId, updateData, t) ==
    LET orderIndex == FindIndex(st.orders, orderId)
    IN  IF orderIndex = 0
        THEN [orders |-> st.orders, notifications |-> st.notifications,
              uuids |-> st.uuids, ret |-> Null]
        ELSE LET existingOrder == st.orders[orderIndex]
                 updatedOrder == UpdatedOrder(existingOrder, updateData, t)
             IN  [orders |-> <<updatedOrder>>
                               \o SubSeq(st.orders, 1, orderIndex - 1)
                               \o SubSeq(st.orders, orderIndex + 1,
                                         Len(st.orders)),
                  notifications |->
                      UpdateNotifications(st.notifications, existingOrder,
                                          orderId, updateData,
                                          Uuid(st.uuids + 1), t),
                  uuids |-> IF StatusChanges(existingOrder, updateData)
                            THEN st.uuids + 1 ELSE st.uuids,
                  ret |-> updatedOrder]

\* an updateOrder that works on the copy of the order it took when the
\* service was constructed: it merges the payload into that copy and writes
\* it back, putting it in front of the store if the order is gone
updateOrderOfStaleCopy(st, orderId, updateData, t) ==
    LET staleIndex == FindIndex(sampleOrders, orderId)
        orderIndex == FindIndex(st.orders, orderId)
    IN  IF staleIndex = 0
        THEN [orders |-> st.orders, notifications |-> st.notifications,
              uuids |-> st.uuids, ret |-> Null]
        ELSE LET existingOrder == sampleOrders[staleIndex]
                 updatedOrder == UpdatedOrder(existingOrder, updateData, t)
             IN  [orders |-> IF orderIndex = 0
                             THEN <<updatedOrder>> \o st.orders
                             ELSE [st.orders EXCEPT
                                      ![orderIndex] = updatedOrder],
                  notifications |->
                      UpdateNotifications(st.notifications, existingOrder,
                                          orderId, updateData,
                                          Uuid(st.uuids + 1), t),
                  uuids |-> IF StatusChanges(existingOrder, updateData)
                            THEN st.uuids + 1 ELSE st.uuids,
                  ret |-> updatedOrder]

\* One run of updateOrder(orderId, updateData) from the service state
\* st = [orders, notifications, uuids]: the state it leaves and, in ret,
\* the value it returns.
updateOrder(st, orderId, updateData, t) ==
    LET orderIndex == FindIndex(st.orders, orderId)
    IN  IF orderIndex = 0
        THEN [orders |-> st.orders, notifications |-> st.notifications,
              uuids |-> st.uuids, ret |-> Null]
        ELSE LET existingOrder == st.orders[orderIndex]
                 updatedOrder == UpdatedOrder(existingOrder, updateData, t)
             IN  [orders |-> [st.orders EXCEPT ![orderIndex] = updatedOrder],
                  notifications |->
                      UpdateNotifications(st.notifications, existingOrder,
                                          orderId, updateData,
                                          Uuid(st.uuids + 1), t),
                  uuids |-> IF StatusChanges(existingOrder, updateData)
                            THEN st.uuids + 1 ELSE st.uuids,
                  ret |-> updatedOrder]

ServiceState == [orders |-> orders, notifications |-> notifications,
                 uuids |-> uuids]

\* order identifiers the model passes to the service: two seed orders, the
\* first identifier a create can assign, and one that is never in the store
TargetIds == {"ORD-001", "ORD-005", "ORD-006", "ORD-404"}

NoFields == [f \in {} |-> Undefined]

\* payloads accepted by UpdateOrderSchema that the model issues
UpdateRequests ==
    {NoFields}
    \cup {[status |-> v] : v \in OrderStatus}
    \cup { [notes |-> << "Call customer back" >>],
           [status |-> "completed", notes |-> << "Call customer back" >>],
           [orderAmount |-> 25000],
           [customerName |-> "Ann Lee", customerEmail |-> "ann@email.com",
            status |-> "completed"] }

UpdateOrder ==
    /\ calls < MaxCalls
    /\ \E orderId \in TargetIds, updateData \in UpdateRequests :
          LET after == updateOrder(ServiceState, orderId, updateData, now)
          IN  /\ orders' = after.orders
              /\ notifications' = after.notifications
              /\ uuids' = after.uuids
              /\ call' = [op |-> "updateOrder", orderId |-> orderId,
                          updateData |-> updateData]
              /\ result' = after.ret
    /\ calls' = calls + 1
    /\ UNCHANGED <<now, ticks, inflight, layout, network>>

\* ------------------------------------------------------------------------
\* bulkUpdateOrders
\* ------------------------------------------------------------------------

\* a bulkUpdateOrders whose loop ends at the first identifier not found
RECURSIVE bulkUpdateLoopBreaks(_, _, _, _, _, _)
bulkUpdateLoopBreaks(st, updatedOrders, orderIds, i, updateData, t) ==
    IF i > Len(orderIds)
    THEN [orders |-> st.orders, notifications |-> st.notifications,
          uuids |-> st.uuids, ret |-> updatedOrders]
    ELSE LET after == updateOrder(st, orderIds[i], updateData, t)
         IN  IF after.ret = Null
             THEN [orders |-> st.orders, notifications |-> st.notifications,
                   uuids |-> st.uuids, ret |-> updatedOrders]
             ELSE bulkUpdateLoopBreaks(
                      [orders |-> after.orders,
                       notifications |-> after.notifications,
                       uuids |-> after.uuids],
                      Append(updatedOrders, after.ret),
                      orderIds, i + 1, updateData, t)

\* The for-loop of bulkUpdateOrders over orderIds[i..], from service state
\* st and with updatedOrders collected so far: the state it leaves and, in
\* ret, the list it returns.
RECURSIVE bulkUpdateLoop(_, _, _, _, _, _)
bulkUpdateLoop(st, updatedOrders, orderIds, i, updateData, t) ==
    IF i > Len(orderIds)
    THEN [orders |-> st.orders, notifications |-> st.notifications,
          uuids |-> st.uuids, ret |-> updatedOrders]
    ELSE LET after == updateOrder(st, orderIds[i], updateData, t)
         IN  bulkUpdateLoop(
                 [orders |-> after.orders,
                  notifications |-> after.notifications,
                  uuids |-> after.uuids],
                 IF after.ret # Null
                 THEN Append(updatedOrders, after.ret)
                 ELSE updatedOrders,
                 orderIds, i + 1, updateData, t)

bulkUpdateOrders(st, orderIds, updateData, t) ==
    bulkUpdateLoop(st, <<>>, orderIds, 1, updateData, t)

\* identifier lists the model passes to bulkUpdateOrders
BulkIdLists ==
    { << >>,
      << "ORD-404" >>,
      << "ORD-005", "ORD-404", "ORD-001" >>,
      << "ORD-006", "ORD-001", "ORD-006" >> }

\* payloads the model passes to bulkUpdateOrders
BulkRequests ==
    { [status |-> "completed"],
      [status |-> "cancelled", notes |-> << "Call customer back" >>],
      [orderAmount |-> 25000] }

BulkUpdateOrders ==
    /\ calls < MaxCalls
    /\ \E orderIds \in BulkIdLists, updateData \in BulkRequests :
          LET after ==
                  bulkUpdateOrders(ServiceState, orderIds, updateData, now)
          IN  /\ orders' = after.orders
              /\ notifications' = after.notifications
              /\ uuids' = after.uuids
              /\ call' = [op |-> "bulkUpdateOrders", orderIds |-> orderIds,
                          updateData |-> updateData]
              /\ result' = [list |-> after.ret]
    /\ calls' = calls + 1
    /\ UNCHANGED <<now, ticks, inflight, layout, network>>

\* ------------------------------------------------------------------------
\* deleteOrder
\* ------------------------------------------------------------------------

\* Array.prototype.splice(i, 1)
Splice1(s, i) == SubSeq(s, 1, i - 1) \o SubSeq(s, i + 1, Len(s))

\* a deleteOrder without the check of -1: splice(-1, 1) removes the last
\* order
deleteOrderUnchecked(os, orderId) ==
    LET orderIndex == FindIndex(os, orderId)
    IN  IF orderIndex = 0
        THEN (IF os = << >> THEN os ELSE SubSeq(os, 1, Len(os) - 1))
        ELSE Splice1(os, orderIndex)

\* the order list after deleteOrder(orderId)
deleteOrder(os, orderId) ==
    LET orderIndex == FindIndex(os, orderId)
    IN  IF orderIndex = 0 THEN os ELSE Splice1(os, orderIndex)

DeleteOrder ==
    /\ calls < MaxCalls
    /\ \E orderId \in TargetIds :
          /\ orders' = deleteOrder(orders, orderId)
          /\ call' = [op |-> "deleteOrder", orderId |-> orderId]
          /\ result' = [ok |-> FindIndex(orders, orderId) # 0]
    /\ calls' = calls + 1
    /\ UNCHANGED <<notifications, uuids, now, ticks,
                   inflight, layout, network>>

\* ------------------------------------------------------------------------
\* Notifications: getNotifications, markNotificationAsRead
\* ------------------------------------------------------------------------

\* a markNotificationAsRead that sets the flag of the notification and
\* clears the flag of the others
markNotificationAsReadOnly(ns, notificationId) ==
    IF \E i \in 1..Len(ns) : ns[i].id = notificationId
    THEN [i \in 1..Len(ns) |->
             [ns[i] EXCEPT !.read = (ns[i].id = notificationId)]]
    ELSE ns

\* the notification list after markNotificationAsRead(notificationId):
\* find() yields the first notification with that id, whose flag is set
markNotificationAsRead(ns, notificationId) ==
    IF \E i \in 1..Len(ns) : ns[i].id = notificationId
    THEN LET i == CHOOSE k \in 1..Len(ns) :
                     /\ ns[k].id = notificationId
                     /\ \A j \in 1..(k - 1) : ns[j].id # notificationId
         IN  [ns EXCEPT ![i].read = TRUE]
    ELSE ns

\* notification identifiers the model passes: the first two handed out and
\* one that never is
NotificationIds == {Uuid(1), Uuid(2), "uuid-404"}

MarkNotificationAsRead ==
    /\ calls < MaxCalls
    /\ \E notificationId \in NotificationIds :
          /\ notifications' =
                markNotificationAsRead(notifications, notificationId)
          /\ call' = [op |-> "markNotificationAsRead",
                      notificationId |-> notificationId]
          /\ result' = [ok |-> (\E i \in 1..Len(notifications) :
                           notifications[i].id = notificationId)]
    /\ calls' = calls + 1
    /\ UNCHANGED <<orders, uuids, now, ticks, inflight, layout, network>>

\* limits the model passes to getNotifications
NotificationLimits == {1, 10}

GetNotifications ==
    /\ calls < MaxCalls
    /\ \E limit \in NotificationLimits :
          /\ call' = [op |-> "getNotifications", limit |-> limit]
          /\ result' = [list |-> SliceTo(notifications, limit)]
    /\ calls' = calls + 1
    /\ UNCHANGED <<orders, notifications, uuids, now, ticks,
                   inflight, layout, network>>

\* ------------------------------------------------------------------------
\* getOrderById
\* ------------------------------------------------------------------------

\* this.orders.find(order => order.orderId === orderId) || null
getOrderById(os, orderId) ==
    IF FindIndex(os, orderId) = 0 THEN Null ELSE os[FindIndex(os, orderId)]

GetOrderById ==
    /\ calls < MaxCalls
    /\ \E orderId \in TargetIds :
          /\ call' = [op |-> "getOrderById", orderId |-> orderId]
          /\ result' = getOrderById(orders, orderId)
    /\ calls' = calls + 1
    /\ UNCHANGED <<orders, notifications, uuids, now, ticks,
                   inflight, layout, network>>

\* ------------------------------------------------------------------------
\* Strings: toLowerCase, includes, the < operator
\* ------------------------------------------------------------------------

\* the ASCII characters of code units 32 (space) to 95, in that order
PrintableFrom32 ==
    " !\"#$%&'()*+,-./0123456789:;<=>?@ABCDEFGHIJKLMNOPQRSTUVWXYZ[\\]^_"

\* the ASCII characters of code units 97 to 126, in that order
PrintableFrom97 == "abcdefghijklmnopqrstuvwxyz{|}~"

\* the UTF-16 code unit of each one-character string
CodeUnits ==
    [c \in {SubSeq(PrintableFrom32, i, i) : i \in 1..Len(PrintableFrom32)}
           \cup
           {SubSeq(PrintableFrom97, i, i) : i \in 1..Len(PrintableFrom97)} |->
        IF \E i \in 1..Len(PrintableFrom32) : SubSeq(PrintableFrom32, i, i) = c
        THEN 31 + (CHOOSE i \in 1..Len(PrintableFrom32) :
                      SubSeq(PrintableFrom32, i, i) = c)
        ELSE 96 + (CHOOSE i \in 1..Len(PrintableFrom97) :
                      SubSeq(PrintableFrom97, i, i) = c)]

CodeUnit(c) == CodeUnits[c]

\* the one-character string of a code unit
FromCodeUnit(n) ==
    IF n < 96 THEN SubSeq(PrintableFrom32, n - 31, n - 31)
    ELSE SubSeq(PrintableFrom97, n - 96, n - 96)

\* String.prototype.toLowerCase()
RECURSIVE ToLowerCase(_)
ToLowerCase(s) ==
    IF s = "" THEN ""
    ELSE LET c == CodeUnit(Head(s))
         IN  (IF c >= 65 /\ c <= 90 THEN FromCodeUnit(c + 32) ELSE Head(s))
             \o ToLowerCase(Tail(s))

\* String.prototype.includes(t)
Includes(s, t) ==
    \E i \in 1..(Len(s) - Len(t) + 1) : SubSeq(s, i, i + Len(t) - 1) = t

\* a < b on two strings: comparison by code units
RECURSIVE StringLess(_, _)
StringLess(a, b) ==
    IF b = "" THEN FALSE
    ELSE IF a = "" THEN TRUE
    ELSE IF Head(a) = Head(b) THEN StringLess(Tail(a), Tail(b))
    ELSE CodeUnit(Head(a)) < CodeUnit(Head(b))

\* ------------------------------------------------------------------------
\* Array.prototype.sort and filter
\* ------------------------------------------------------------------------

\* Array.prototype.sort(compareFn), a stable sort: the element at index i
\* comes after the elements that compare smaller and after the elements
\* before it that compare equal.
\* (The ranks are a sequence computed once, of which the one sorted array is
\* built.)
Sort(s, Compare(_, _)) ==
    LET ranks == SubSeq([i \in 1..Len(s) |->
                    1 + Cardinality({ j \in 1..Len(s) :
                                        \/ Compare(s[j], s[i]) < 0
                                        \/ Compare(s[j], s[i]) = 0 /\ j < i })],
                        1, Len(s))
    IN  CHOOSE sorted \in
            { [k \in 1..Len(s) |-> s[CHOOSE i \in 1..Len(s) : rank[i] = k]] :
                 rank \in {ranks} } : TRUE

\* Array.prototype.filter(keep)
Filter(s, Keep(_)) == SelectSeq(s, Keep)

\* Array.prototype.slice(from, to) for whole from and to (0-based): a
\* negative index counts from the end of the array
Slice(s, from, to) ==
    LET len == Len(s)
        k == IF from < 0 THEN (IF len + from > 0 THEN len + from ELSE 0)
             ELSE (IF from < len THEN from ELSE len)
        final == IF to < 0 THEN (IF len + to > 0 THEN len + to ELSE 0)
                 ELSE (IF to < len THEN to ELSE len)
    IN  IF k >= final THEN <<>> ELSE SubSeq(s, k + 1, final)

\* ------------------------------------------------------------------------
\* getOrders
\* ------------------------------------------------------------------------

\* a search filter that reads an absent e-mail address as a text
MatchesSearchAbsentAsText(order, search) ==
    LET searchLower == ToLowerCase(search)
    IN  \/ Includes(ToLowerCase(order.orderId), searchLower)
        \/ Includes(ToLowerCase(order.customerName), searchLower)
        \/ Includes(ToLowerCase(order.customerEmail), searchLower)

\* the search filter of getOrders
MatchesSearch(order, search) ==
    LET searchLower == ToLowerCase(search)
    IN  \/ Includes(ToLowerCase(order.orderId), searchLower)
        \/ Includes(ToLowerCase(order.customerName), searchLower)
        \/ /\ order.customerEmail # Undefined
           /\ Includes(ToLowerCase(order.customerEmail), searchLower)

\* filters whose date bounds are exclusive
FilterOrdersExclusiveDates(os, query) ==
    LET byStatus ==
            IF "status" \in DOMAIN query
            THEN LET Keep(o) == o.status = query.status
                 IN  Filter(os, Keep)
            ELSE os
        bySearch ==
            IF "search" \in DOMAIN query /\ query.search # ""
            THEN LET Keep(o) == MatchesSearch(o, query.search)
                 IN  Filter(byStatus, Keep)
            ELSE byStatus
        byDateFrom ==
            IF "dateFrom" \in DOMAIN query
            THEN LET Keep(o) == o.orderDate > query.dateFrom
                 IN  Filter(bySearch, Keep)
            ELSE bySearch
        byDateTo ==
            IF "dateTo" \in DOMAIN query
            THEN LET Keep(o) == o.orderDate < query.dateTo
                 IN  Filter(byDateFrom, Keep)
            ELSE byDateFrom
    IN  byDateTo

\* the filters of getOrders, applied one after another
FilterOrders(os, query) ==
    LET byStatus ==
            IF "status" \in DOMAIN query
            THEN LET Keep(o) == o.status = query.status
                 IN  Filter(os, Keep)
            ELSE os
        bySearch ==
            IF "search" \in DOMAIN query /\ query.search # ""
            THEN LET Keep(o) == MatchesSearch(o, query.search)
                 IN  Filter(byStatus, Keep)
            ELSE byStatus
        byDateFrom ==
            IF "dateFrom" \in DOMAIN query
            THEN LET Keep(o) == o.orderDate >= query.dateFrom
                 IN  Filter(bySearch, Keep)
            ELSE bySearch
        byDateTo ==
            IF "dateTo" \in DOMAIN query
            THEN LET Keep(o) == o.orderDate <= query.dateTo
                 IN  Filter(byDateFrom, Keep)
            ELSE byDateFrom
    IN  byDateTo

\* aValue < bValue for the values of one sort key
ValueLess(sortBy, aValue, bValue) ==
    IF sortBy \in {"orderAmount", "orderDate"}
    THEN aValue < bValue
    ELSE StringLess(aValue, bValue)

\* the comparator getOrders hands to sort
CompareOrders(query, a, b) ==
    LET aValue == a[query.sortBy]
        bValue == b[query.sortBy]
        comparison ==
            IF ValueLess(query.sortBy, bValue, aValue) THEN 1
            ELSE IF ValueLess(query.sortBy, aValue, bValue) THEN -1
            ELSE 0
    IN  IF query.sortOrder = "asc" THEN comparison ELSE -comparison

\* a list sorted ascending and then reversed when sortOrder is "desc"
SortedOrdersByReversal(os, query) ==
    LET Compare(a, b) == CompareOrders([query EXCEPT !.sortOrder = "asc"], a, b)
        ascending == Sort(FilterOrders(os, query), Compare)
    IN  IF query.sortOrder = "asc" THEN ascending
        ELSE [i \in 1..Len(ascending) |-> ascending[Len(ascending) + 1 - i]]

\* the filtered and sorted list getOrders paginates
SortedOrders(os, query) ==
    LET Compare(a, b) == CompareOrders(query, a, b)
    IN  Sort(FilterOrders(os, query), Compare)

\* what getOrders(query) returns; query.page and query.limit are numbers
\* that need not be whole, which slice turns into whole indices
getOrders(os, query) ==
    LET filteredOrders == SortedOrders(os, query)
        page == query.page
        limit == query.limit
        \* (query.page - 1) * query.limit
        startIndex == Ratio((page.num - page.den) * limit.num,
                            page.den * limit.den)
        \* startIndex + query.limit
        endIndex == Ratio(startIndex.num + limit.num * page.den,
                          startIndex.den)
    IN  [orders |-> Slice(filteredOrders, ToIntegerOrInfinity(startIndex),
                          ToIntegerOrInfinity(endIndex)),
         total |-> Len(filteredOrders)]

\* OrderQuerySchema: the defaults of page, limit, sortBy and sortOrder
QueryDefaults ==
    [page |-> Whole(1), limit |-> Whole(10), sortBy |-> "orderDate",
     sortOrder |-> "desc"]

\* queries, as parsed by OrderQuerySchema, that the model issues
Queries ==
    { Spread(QueryDefaults, q) :
        q \in { NoFields,
                [status |-> "completed", sortBy |-> "orderAmount",
                 dateFrom |-> 16845, dateTo |-> 44639],
                [search |-> "SMITH", sortBy |-> "customerName",
                 sortOrder |-> "asc", limit |-> Whole(2),
                 page |-> Whole(2)] } }

\* a getOrders that sorts this.orders itself instead of a copy of it
GetOrdersCallSortingStore(query) ==
    /\ call' = [op |-> "getOrders", query |-> query]
    /\ result' = getOrders(orders, query)
    /\ orders' = SortedOrders(orders, [query EXCEPT !.sortOrder = "asc"])
    /\ calls' = calls + 1
    /\ UNCHANGED <<notifications, uuids, now, ticks,
                   inflight, layout, network>>

\* one call getOrders(query): it works on the copy [...this.orders]
GetOrdersCall(query) ==
    /\ call' = [op |-> "getOrders", query |-> query]
    /\ result' = getOrders(orders, query)
    /\ calls' = calls + 1
    /\ UNCHANGED <<orders, notifications, uuids, now, ticks,
                   inflight, layout, network>>

GetOrders ==
    /\ calls < MaxCalls
    /\ \E query \in Queries : GetOrdersCall(query)

\* ------------------------------------------------------------------------
\* getOrdersForExport
\* ------------------------------------------------------------------------

\* the query getOrdersForExport builds from its filters
ExportQuery(filters) ==
    Spread([page |-> Whole(1), limit |-> Whole(1000), sortBy |-> "orderDate",
            sortOrder |-> "desc"],
           filters)

getOrdersForExport(os, filters) == getOrders(os, ExportQuery(filters)).orders

\* filters (Partial<OrderQuery>) the model passes to getOrdersForExport
ExportFilters ==
    { NoFields, [search |-> "ord-00", page |-> Whole(2), limit |-> Whole(2)] }

GetOrdersForExport ==
    /\ calls < MaxCalls
    /\ \E filters \in ExportFilters :
          /\ call' = [op |-> "getOrdersForExport", filters |-> filters]
          /\ result' = [list |-> getOrdersForExport(orders, filters)]
    /\ calls' = calls + 1
    /\ UNCHANGED <<orders, notifications, uuids, now, ticks,
                   inflight, layout, network>>

\* ------------------------------------------------------------------------
\* Numbers: the sum of two amounts.  An amount that a request or the seed
\* data writes as a decimal with two digits is held as its number of cents;
\* the JavaScript number it denotes is the nearest binary64 value, and the
\* sum a + b of two numbers is the exact sum rounded to 53 significant bits
\* (ties to even).  A binary64 value x with 0.01 <= x < 2^31, or 0, is held
\* as the whole number x * 2^64, written as six digits of base 2^16, lowest
\* digit first: bit i (counted from 0) has the weight 2^(i - 64).
\* ------------------------------------------------------------------------

\* significant bits of a binary64 value
MantissaBits == 53

\* bits of one digit
DigitBits == 16

\* the powers of two from 2^0 to 2^16
Powers ==
    << 1, 2, 4, 8, 16, 32, 64, 128, 256, 512, 1024, 2048, 4096, 8192, 16384,
       32768, 65536 >>

Pow2(n) == Powers[n + 1]

\* the number 0
Zero == <<0, 0, 0, 0, 0, 0>>

\* bit i of the value
Bit(x, i) == (x[(i \div DigitBits) + 1] \div Pow2(i % DigitBits)) % 2

\* index of the highest bit that is 1 (-1 for the number 0)
TopBit(x) ==
    IF x = Zero THEN -1
    ELSE LET k == CHOOSE d \in 1..6 :
                     x[d] # 0 /\ \A e \in (d + 1)..6 : x[e] = 0
             b == CHOOSE c \in 0..(DigitBits - 1) :
                     Pow2(c) <= x[k] /\ x[k] < Pow2(c + 1)
         IN  DigitBits * (k - 1) + b

\* the digits d.. of the exact sum of two values, carry coming in at d
RECURSIVE SumFrom(_, _, _, _)
SumFrom(x, y, d, carry) ==
    IF d > 6 THEN <<>>
    ELSE <<(x[d] + y[d] + carry) % Pow2(DigitBits)>>
             \o SumFrom(x, y, d + 1, (x[d] + y[d] + carry) \div Pow2(DigitBits))

\* the exact sum of two values
ExactSum(x, y) == SumFrom(x, y, 1, 0)

\* the value with its bits below bit i cleared
ClearBelow(x, i) ==
    LET Digit(d) ==
            LET first == DigitBits * (d - 1)
            IN  IF first >= i THEN x[d]
                ELSE IF first + DigitBits <= i THEN 0
                ELSE x[d] - (x[d] % Pow2(i - first))
    IN  <<Digit(1), Digit(2), Digit(3), Digit(4), Digit(5), Digit(6)>>

\* the value 2^(i - 64), which has bit i alone
OneBit(i) ==
    LET Digit(d) == IF i \div DigitBits = d - 1 THEN Pow2(i % DigitBits) ELSE 0
    IN  <<Digit(1), Digit(2), Digit(3), Digit(4), Digit(5), Digit(6)>>

\* the value x, of which sticky tells whether bits below its lowest one
\* were cut off, rounded to MantissaBits significant bits, ties to even
RoundToNearest(x, sticky) ==
    LET low == TopBit(x) - MantissaBits + 1
    IN  IF low <= 0 THEN x
        ELSE LET kept == ClearBelow(x, low)
                 half == Bit(x, low - 1) = 1
                 more == sticky \/ ClearBelow(x, low - 1) # x
             IN  IF half /\ (more \/ Bit(x, low) = 1)
                 THEN ExactSum(kept, OneBit(low))
                 ELSE kept

\* a + b on two numbers
NumberSum(x, y) == RoundToNearest(ExactSum(x, y), FALSE)

\* a < b on two numbers
NumberLess(x, y) ==
    \E d \in 1..6 : x[d] < y[d] /\ \A e \in (d + 1)..6 : x[e] = y[e]

\* the number that the decimal cents / 100 denotes: four digits of the
\* fraction by long division, two digits of the whole part
NumberOfCents(cents) ==
    LET whole == cents \div 100
        r0 == cents % 100
        r1 == (r0 * Pow2(DigitBits)) % 100
        r2 == (r1 * Pow2(DigitBits)) % 100
        r3 == (r2 * Pow2(DigitBits)) % 100
        r4 == (r3 * Pow2(DigitBits)) % 100
    IN  RoundToNearest(
            << (r3 * Pow2(DigitBits)) \div 100,
               (r2 * Pow2(DigitBits)) \div 100,
               (r1 * Pow2(DigitBits)) \div 100,
               (r0 * Pow2(DigitBits)) \div 100,
               whole % Pow2(DigitBits),
               whole \div Pow2(DigitBits) >>,
            r4 # 0)

\* ------------------------------------------------------------------------
\* getAnalytics
\* ------------------------------------------------------------------------

\* Array.prototype.reduce((sum, order) => sum + order.orderAmount, 0): the
\* amounts are added one by one, from the first order on
RECURSIVE SumAmounts(_)
SumAmounts(os) ==
    IF os = <<>> THEN Zero
    ELSE NumberSum(SumAmounts(SubSeq(os, 1, Len(os) - 1)),
                   NumberOfCents(os[Len(os)].orderAmount))

\* the number of days of each month of 2024
DaysInMonth == <<31, 29, 31, 30, 31, 30, 31, 31, 30, 31, 30, 31>>

\* the first minute after month m of 2024
RECURSIVE MonthEnd(_)
MonthEnd(m) == IF m = 0 THEN 0 ELSE MonthEnd(m - 1) + DaysInMonth[m] * 1440

\* new Date(orderDate).toISOString().slice(0, 7), for a time in 2024
MonthKey(t) ==
    LET m == CHOOSE k \in 1..12 : MonthEnd(k - 1) <= t /\ t < MonthEnd(k)
    IN  "2024-" \o PadStart(ToString(m), 2)

\* index of the entry of a Map (a list of entries in insertion order) whose
\* key is k, 0 if there is none
MapIndex(entries, keyField, k) ==
    IF \E i \in 1..Len(entries) : entries[i][keyField] = k
    THEN CHOOSE i \in 1..Len(entries) : entries[i][keyField] = k
    ELSE 0

\* the forEach loop of calculateRevenueByMonth over os[i..], monthlyData
\* being the Map built so far
RECURSIVE MonthlyData(_, _, _)
MonthlyData(os, i, monthlyData) ==
    IF i > Len(os) THEN monthlyData
    ELSE LET order == os[i]
             month == MonthKey(order.orderDate)
             at == MapIndex(monthlyData, "month", month)
             existing == IF at = 0 THEN [revenue |-> Zero, orders |-> 0]
                         ELSE monthlyData[at]
             entry == [month |-> month,
                       revenue |-> NumberSum(
                                     existing.revenue,
                                     IF order.status = "completed"
                                     THEN NumberOfCents(order.orderAmount)
                                     ELSE Zero),
                       orders |-> existing.orders + 1]
         IN  MonthlyData(os, i + 1,
                         IF at = 0 THEN Append(monthlyData, entry)
                         ELSE [monthlyData EXCEPT ![at] = entry])

calculateRevenueByMonth(os) ==
    LET Compare(a, b) == IF StringLess(a.month, b.month) THEN -1
                         ELSE IF StringLess(b.month, a.month) THEN 1
                         ELSE 0
    IN  Sort(MonthlyData(os, 1, <<>>), Compare)

\* the forEach loop of calculateTopCustomers over os[i..]
RECURSIVE CustomerData(_, _, _)
CustomerData(os, i, customerData) ==
    IF i > Len(os) THEN customerData
    ELSE LET order == os[i]
             at == MapIndex(customerData, "customerName", order.customerName)
             existing == IF at = 0
                         THEN [totalOrders |-> 0, totalRevenue |-> Zero]
                         ELSE customerData[at]
             entry == [customerName |-> order.customerName,
                       totalOrders |-> existing.totalOrders + 1,
                       totalRevenue |-> NumberSum(
                                          existing.totalRevenue,
                                          IF order.status = "completed"
                                          THEN NumberOfCents(order.orderAmount)
                                          ELSE Zero)]
         IN  CustomerData(os, i + 1,
                          IF at = 0 THEN Append(customerData, entry)
                          ELSE [customerData EXCEPT ![at] = entry])

\* calculateTopCustomers: slice(0, 10)
TopCustomersLimit == 10

\* a calculateTopCustomers that cuts the list to ten before it sorts it
calculateTopCustomersCutFirst(os) ==
    LET Compare(a, b) ==
            IF NumberLess(a.totalRevenue, b.totalRevenue) THEN 1
            ELSE IF NumberLess(b.totalRevenue, a.totalRevenue) THEN -1
            ELSE 0
    IN  Sort(Slice(CustomerData(os, 1, <<>>), 0, TopCustomersLimit), Compare)

calculateTopCustomers(os) ==
    \* the sign of b.totalRevenue - a.totalRevenue
    LET Compare(a, b) ==
            IF NumberLess(a.totalRevenue, b.totalRevenue) THEN 1
            ELSE IF NumberLess(b.totalRevenue, a.totalRevenue) THEN -1
            ELSE 0
    IN  Slice(Sort(CustomerData(os, 1, <<>>), Compare), 0, TopCustomersLimit)

\* a getAnalytics that divides by the number of orders even when it is 0
getAnalyticsUnguarded(os) ==
    LET totalOrders == Len(os)
        IsCompleted(order) == order.status = "completed"
        completedOrders == Filter(os, IsCompleted)
        totalRevenue == SumAmounts(completedOrders)
    IN  [totalOrders |-> totalOrders,
         totalRevenue |-> totalRevenue,
         averageOrderValue |-> IF totalOrders > 0
                               THEN Ratio(totalRevenue, totalOrders)
                               ELSE Ratio(Zero, 1),
         completionRate |-> Ratio(Len(completedOrders) * 100, totalOrders),
         statusBreakdown |->
             [st \in OrderStatus |->
                 Cardinality({i \in 1..Len(os) : os[i].status = st})],
         revenueByMonth |-> calculateRevenueByMonth(os),
         topCustomers |-> calculateTopCustomers(os)]

\* a getAnalytics whose revenue counts the orders of every status
getAnalyticsAllRevenue(os) ==
    LET totalOrders == Len(os)
        IsCompleted(order) == order.status = "completed"
        completedOrders == Filter(os, IsCompleted)
        totalRevenue == SumAmounts(os)
    IN  [totalOrders |-> totalOrders,
         totalRevenue |-> totalRevenue,
         averageOrderValue |-> IF totalOrders > 0
                               THEN Ratio(totalRevenue, totalOrders)
                               ELSE Ratio(Zero, 1),
         completionRate |-> IF totalOrders > 0
                            THEN Ratio(Len(completedOrders) * 100, totalOrders)
                            ELSE Ratio(0, 1),
         statusBreakdown |->
             [st \in OrderStatus |->
                 Cardinality({i \in 1..Len(os) : os[i].status = st})],
         revenueByMonth |-> calculateRevenueByMonth(os),
         topCustomers |-> calculateTopCustomers(os)]

\* a getAnalytics that averages over the completed orders
getAnalyticsPerCompleted(os) ==
    LET totalOrders == Len(os)
        IsCompleted(order) == order.status = "completed"
        completedOrders == Filter(os, IsCompleted)
        totalRevenue == SumAmounts(completedOrders)
    IN  [totalOrders |-> totalOrders,
         totalRevenue |-> totalRevenue,
         averageOrderValue |-> IF Len(completedOrders) > 0
                               THEN Ratio(totalRevenue, Len(completedOrders))
                               ELSE Ratio(Zero, 1),
         completionRate |-> IF totalOrders > 0
                            THEN Ratio(Len(completedOrders) * 100, totalOrders)
                            ELSE Ratio(0, 1),
         statusBreakdown |->
             [st \in OrderStatus |->
                 Cardinality({i \in 1..Len(os) : os[i].status = st})],
         revenueByMonth |-> calculateRevenueByMonth(os),
         topCustomers |-> calculateTopCustomers(os)]

\* what getAnalytics() returns
getAnalytics(os) ==
    LET totalOrders == Len(os)
        IsCompleted(order) == order.status = "completed"
        completedOrders == Filter(os, IsCompleted)
        totalRevenue == SumAmounts(completedOrders)
    IN  [totalOrders |-> totalOrders,
         totalRevenue |-> totalRevenue,
         averageOrderValue |-> IF totalOrders > 0
                               THEN Ratio(totalRevenue, totalOrders)
                               ELSE Ratio(Zero, 1),
         completionRate |-> IF totalOrders > 0
                            THEN Ratio(Len(completedOrders) * 100, totalOrders)
                            ELSE Ratio(0, 1),
         statusBreakdown |->
             [st \in OrderStatus |->
                 Cardinality({i \in 1..Len(os) : os[i].status = st})],
         revenueByMonth |-> calculateRevenueByMonth(os),
         topCustomers |-> calculateTopCustomers(os)]

GetAnalytics ==
    /\ calls < MaxCalls
    /\ call' = [op |-> "getAnalytics"]
    /\ result' = getAnalytics(orders)
    /\ calls' = calls + 1
    /\ UNCHANGED <<orders, notifications, uuids, now, ticks,
                   inflight, layout, network>>

\* ------------------------------------------------------------------------
\* The clock
\* ------------------------------------------------------------------------

\* new Date() reads a later time than before
Tick ==
    /\ ticks < MaxTicks
    /\ now' = now + 1
    /\ ticks' = ticks + 1
    /\ UNCHANGED <<orders, notifications, uuids, call, result, calls,
                   inflight, layout, network>>

\* ------------------------------------------------------------------------
\* Specification
\* ------------------------------------------------------------------------

Init ==
    /\ orders = sampleOrders
    /\ notifications = <<>>
    /\ now = StartTime
    /\ uuids = 0
    /\ call = [op |-> "constructor"]
    /\ result = Null
    /\ calls = 0
    /\ ticks = 0
    /\ inflight = <<>>
    /\ layout = [notifications |-> <<>>, unreadCount |-> 0, fetched |-> FALSE]
    /\ network = <<>>

Next ==
    \/ CreateOrder
    \/ UpdateOrder
    \/ BulkUpdateOrders
    \/ DeleteOrder
    \/ MarkNotificationAsRead
    \/ GetNotifications
    \/ GetOrderById
    \/ GetOrders
    \/ GetOrdersForExport
    \/ GetAnalytics
    \/ Tick

Spec == Init /\ [][Next]_vars

\* ------------------------------------------------------------------------
\* The long run: enough calls for the notification list to reach its cap.
\* The first FillCalls calls are status changes of ORD-001 (one
\* notification each); the calls after them are chosen freely.
\* ------------------------------------------------------------------------

LongRunTargetIds == {"ORD-001", "ORD-404"}

LongRunRequests == {[status |-> "pending"], [status |-> "completed"]}

LongRunUpdateOrder ==
    /\ calls < LongRunCalls
    /\ \E orderId \in LongRunTargetIds, updateData \in LongRunRequests :
          LET after == updateOrder(ServiceState, orderId, updateData, now)
          IN  /\ calls < FillCalls => after.uuids = uuids + 1
              /\ orders' = after.orders
              /\ notifications' = after.notifications
              /\ uuids' = after.uuids
              /\ call' = [op |-> "updateOrder", orderId |-> orderId,
                          updateData |-> updateData]
              /\ result' = after.ret
    /\ calls' = calls + 1
    /\ UNCHANGED <<now, ticks, inflight, layout, network>>

LongRunCreateOrder ==
    /\ FillCalls <= calls
    /\ calls < LongRunCalls
    /\ LET orderData == [customerName |-> "Ann Lee", orderAmount |-> 4500]
           newOrder == NewOrder(orders, orderData, Null, now)
       IN  /\ orders' = <<newOrder>> \o orders
           /\ notifications' =
                 createNotification(
                     notifications,
                     [type |-> "order_created",
                      title |-> "New Order Created",
                      message |-> "Order " \o newOrder.orderId
                                  \o " has been created for "
                                  \o orderData.customerName,
                      orderId |-> newOrder.orderId],
                     Uuid(uuids + 1), now)
           /\ uuids' = uuids + 1
           /\ call' = [op |-> "createOrder", orderData |-> orderData,
                       invoiceFile |-> Null]
           /\ result' = newOrder
    /\ calls' = calls + 1
    /\ UNCHANGED <<now, ticks, inflight, layout, network>>

\* marks the newest or the oldest notification of the list, or the first
\* notification that was ever created
LongRunMarkNotificationAsRead ==
    /\ FillCalls <= calls
    /\ calls < LongRunCalls
    /\ \E notificationId \in {notifications[1].id,
                               notifications[Len(notifications)].id,
                               Uuid(1)} :
          /\ notifications' =
                markNotificationAsRead(notifications, notificationId)
          /\ call' = [op |-> "markNotificationAsRead",
                      notificationId |-> notificationId]
          /\ result' = [ok |-> (\E i \in 1..Len(notifications) :
                           notifications[i].id = notificationId)]
    /\ calls' = calls + 1
    /\ UNCHANGED <<orders, uuids, now, ticks, inflight, layout, network>>

LongRunNext ==
    \/ LongRunUpdateOrder
    \/ LongRunCreateOrder
    \/ LongRunMarkNotificationAsRead

LongRunSpec == Init /\ [][LongRunNext]_vars

\* ------------------------------------------------------------------------
\* Vocabulary of the properties
\* ------------------------------------------------------------------------

\* this step is a call of the service operation op
Called(op) == calls' = calls + 1 /\ call'.op = op

\* the store os holds an order with this identifier
Stored(os, orderId) == \E i \in 1..Len(os) : os[i].orderId = orderId

\* the position of the order an operation on orderId finds: the first one
PositionOf(os, orderId) ==
    CHOOSE i \in 1..Len(os) :
        /\ os[i].orderId = orderId
        /\ \A j \in 1..Len(os) : os[j].orderId = orderId => i <= j

\* a is a prefix of b
IsPrefix(a, b) == Len(a) <= Len(b) /\ SubSeq(b, 1, Len(a)) = a

\* the payload asks for a status the order os[i] does not have
AsksOtherStatus(os, i, updateData) ==
    /\ "status" \in DOMAIN updateData
    /\ updateData.status # os[i].status

\* the notification list ns with one notification n put in front, cut to
\* the capacity of the list
WithNewest(n, ns) ==
    IF Len(ns) >= MaxNotifications
    THEN <<n>> \o SubSeq(ns, 1, MaxNotifications - 1)
    ELSE <<n>> \o ns

\* ------------------------------------------------------------------------
\* C1: no two orders of the store have the same orderId, in every state
\* reachable from the seed store by createOrder, updateOrder,
\* bulkUpdateOrders and deleteOrder.
\* ------------------------------------------------------------------------

C1_UniqueOrderIds ==
    \A i, j \in 1..Len(orders) :
        i # j => orders[i].orderId # orders[j].orderId

\* ------------------------------------------------------------------------
\* C2: the order createOrder returns is the one it stores; its status is
\* pending, its notes are the one seed note, and createdAt, updatedAt and
\* orderDate are the same time.
\* ------------------------------------------------------------------------

C2_CreatedOrder ==
    call.op = "createOrder" =>
        /\ Len(orders) >= 1
        /\ orders[1] = result
        /\ result.status = "pending"
        /\ Len(result.notes) = 1
        /\ result.notes[1] = "Order received and awaiting confirmation"
        /\ result.createdAt = result.updatedAt
        /\ result.createdAt = result.orderDate

C2_Witness ==
    /\ call.op = "createOrder"
    /\ now > StartTime
    /\ result.createdAt = now
    /\ result.customerName = "Ann Lee"

\* ------------------------------------------------------------------------
\* C3: an updateOrder whose payload carries a status B other than the
\* status A of the order leaves the order with its former notes followed
\* by the one entry "Status changed from A to B", whatever else (notes
\* included) the payload carries.
\* ------------------------------------------------------------------------

C3_StatusChangeAppendsNote ==
    [][ (/\ Called("updateOrder")
         /\ Stored(orders, call'.orderId)
         /\ AsksOtherStatus(orders, PositionOf(orders, call'.orderId),
                            call'.updateData))
        =>
        LET i == PositionOf(orders, call'.orderId)
        IN  /\ Len(orders') = Len(orders)
            /\ orders'[i].notes =
                  Append(orders[i].notes,
                         "Status changed from " \o orders[i].status
                         \o " to " \o call'.updateData.status)
            /\ result'.notes = orders'[i].notes ]_vars

C3_Witness ==
    /\ call.op = "updateOrder"
    /\ call.orderId = "ORD-005"
    /\ "notes" \in DOMAIN call.updateData
    /\ "status" \in DOMAIN call.updateData
    /\ result # Null
    /\ result.notes[Len(result.notes)] =
          "Status changed from cancelled to completed"

\* ------------------------------------------------------------------------
\* C4: an updateOrder of an existing order whose payload carries no status,
\* or the status the order has, leaves the notes of the order as they
\* were, for every payload UpdateOrderSchema accepts.
\* ------------------------------------------------------------------------

C4_NotesKeptWithoutStatusChange ==
    [][ (/\ Called("updateOrder")
         /\ Stored(orders, call'.orderId)
         /\ ~AsksOtherStatus(orders, PositionOf(orders, call'.orderId),
                             call'.updateData))
        =>
        LET i == PositionOf(orders, call'.orderId)
        IN  orders'[i].notes = orders[i].notes ]_vars

\* ------------------------------------------------------------------------
\* C5: notes are append-only: across every updateOrder and
\* bulkUpdateOrders, the notes an order had are a prefix of the notes it
\* has afterwards.
\* ------------------------------------------------------------------------

C5_NotesAppendOnly ==
    [][ (Called("updateOrder") \/ Called("bulkUpdateOrders"))
        =>
        /\ Len(orders') = Len(orders)
        /\ \A i \in 1..Len(orders) :
              /\ orders'[i].orderId = orders[i].orderId
              /\ IsPrefix(orders[i].notes, orders'[i].notes) ]_vars

\* ------------------------------------------------------------------------
\* C6: an updateOrder that changes the status of an existing order is
\* never rejected and emits exactly one notification: of type
\* order_updated, unread, for the order updated, put in front of the
\* notifications there were.
\* ------------------------------------------------------------------------

C6_StatusChangeNotifies ==
    [][ (/\ Called("updateOrder")
         /\ Stored(orders, call'.orderId)
         /\ AsksOtherStatus(orders, PositionOf(orders, call'.orderId),
                            call'.updateData))
        =>
        /\ result' # Null
        /\ result'.status = call'.updateData.status
        /\ result'.orderId = call'.orderId
        /\ Len(notifications') >= 1
        /\ notifications' = WithNewest(notifications'[1], notifications)
        /\ notifications'[1].type = "order_updated"
        /\ notifications'[1].orderId = result'.orderId
        /\ notifications'[1].read = FALSE ]_vars

C6_Witness ==
    /\ call.op = "updateOrder"
    /\ result # Null
    /\ result.status = "processing"
    /\ Len(notifications) = 2
    /\ notifications[1].type = "order_updated"
    /\ notifications[2].type = "order_created"

\* ------------------------------------------------------------------------
\* C7: createOrder emits exactly one notification: of type order_created,
\* unread, for the order just created, and it is the first element of the
\* notification list right after the call.
\* ------------------------------------------------------------------------

C7_CreateNotifies ==
    [][ Called("createOrder")
        =>
        /\ Len(notifications') >= 1
        /\ notifications' = WithNewest(notifications'[1], notifications)
        /\ notifications'[1].type = "order_created"
        /\ notifications'[1].orderId = result'.orderId
        /\ notifications'[1].read = FALSE ]_vars

C7_Witness ==
    /\ call.op = "createOrder"
    /\ Len(notifications) = 2
    /\ notifications[1].orderId = result.orderId
    /\ notifications[2].type = "order_updated"

\* ------------------------------------------------------------------------
\* C8: the notification list changes only in a createOrder, in an update
\* (single or bulk) that changes the status of an order, or in a
\* markNotificationAsRead; deleteOrder, an update that changes no status
\* and the reading operations leave it as it is.
\* ------------------------------------------------------------------------

C8_NotificationFrame ==
    [][ notifications' # notifications
        =>
        \/ Called("createOrder")
        \/ Called("markNotificationAsRead")
        \/ /\ Called("updateOrder")
           /\ Stored(orders, call'.orderId)
           /\ AsksOtherStatus(orders, PositionOf(orders, call'.orderId),
                              call'.updateData)
        \/ /\ Called("bulkUpdateOrders")
           /\ \E k \in 1..Len(call'.orderIds) :
                 /\ Stored(orders, call'.orderIds[k])
                 /\ AsksOtherStatus(orders,
                                    PositionOf(orders, call'.orderIds[k]),
                                    call'.updateData) ]_vars

C8_Witness ==
    /\ call.op = "deleteOrder"
    /\ result.ok
    /\ Len(notifications) = 1

\* ------------------------------------------------------------------------
\* C9: an operation on an identifier that is not in the store reports it
\* as a value and changes nothing: updateOrder returns null, deleteOrder
\* and markNotificationAsRead return false, and the order list and the
\* notification list are as before.
\* ------------------------------------------------------------------------

C9_NotFoundChangesNothing ==
    [][ /\ (Called("updateOrder") /\ ~Stored(orders, call'.orderId))
           => (result' = Null /\ orders' = orders
               /\ notifications' = notifications)
        /\ (Called("deleteOrder") /\ ~Stored(orders, call'.orderId))
           => (result' = [ok |-> FALSE] /\ orders' = orders
               /\ notifications' = notifications)
        /\ (/\ Called("markNotificationAsRead")
            /\ \A i \in 1..Len(notifications) :
                  notifications[i].id # call'.notificationId)
           => (result' = [ok |-> FALSE] /\ orders' = orders
               /\ notifications' = notifications) ]_vars

C9_Witness ==
    /\ call.op = "deleteOrder"
    /\ call.orderId = "ORD-404"
    /\ result = [ok |-> FALSE]
    /\ Len(orders) = 6

\* ------------------------------------------------------------------------
\* C10: bulkUpdateOrders updates the identifiers in list order; those not
\* in the store are skipped and change nothing; the list returned has one
\* entry per identifier found, in the order supplied, each the order as
\* stored by its own update.
\* ------------------------------------------------------------------------

\* the identifiers of ids that are in the store os, in the order of ids
FoundIds(os, ids) ==
    LET IsStored(id) == Stored(os, id)
    IN  SelectSeq(ids, IsStored)

\* the identifiers of ids whose order in os has another status than the
\* payload asks for, once each, in the order of ids
ChangedIds(os, ids, updateData) ==
    LET Changes(k) ==
            /\ Stored(os, ids[k])
            /\ AsksOtherStatus(os, PositionOf(os, ids[k]), updateData)
            /\ \A m \in 1..(k - 1) : ids[m] # ids[k]
        RECURSIVE From(_)
        From(k) == IF k > Len(ids) THEN << >>
                   ELSE (IF Changes(k) THEN <<ids[k]>> ELSE << >>)
                        \o From(k + 1)
    IN  From(1)

C10_BulkUpdate ==
    [][ Called("bulkUpdateOrders")
        =>
        LET ids == call'.orderIds
            data == call'.updateData
            found == FoundIds(orders, ids)
            changed == ChangedIds(orders, ids, data)
            list == result'.list
        IN  \* one entry per identifier found, in the order supplied
            /\ Len(list) = Len(found)
            /\ \A k \in 1..Len(found) : list[k].orderId = found[k]
            \* each entry carries the fields of the payload, and the last
            \* entry of an identifier is the order now stored
            /\ \A k \in 1..Len(found) :
                  /\ \A f \in DOMAIN data \ {"notes"} : list[k][f] = data[f]
                  /\ list[k].updatedAt = now
                  /\ (\A m \in (k + 1)..Len(found) : found[m] # found[k])
                     => list[k] = orders'[PositionOf(orders', found[k])]
            \* orders that were not named are as before
            /\ Len(orders') = Len(orders)
            /\ \A i \in 1..Len(orders) :
                  (\A k \in 1..Len(ids) : ids[k] # orders[i].orderId)
                  => orders'[i] = orders[i]
            \* the status changes were made in list order: their
            \* notifications are in front, the last one made first
            /\ Len(notifications) + Len(changed) <= MaxNotifications
               => /\ Len(notifications') = Len(notifications) + Len(changed)
                  /\ \A k \in 1..Len(changed) :
                        notifications'[Len(changed) + 1 - k].orderId
                           = changed[k]
                  /\ SubSeq(notifications', Len(changed) + 1,
                            Len(notifications')) = notifications ]_vars

C10_Witness ==
    /\ call.op = "bulkUpdateOrders"
    /\ call.orderIds = << "ORD-005", "ORD-404", "ORD-001" >>
    /\ call.updateData = [status |-> "completed"]
    /\ Len(result.list) = 2
    /\ result.list[1].orderId = "ORD-005"
    /\ result.list[2].orderId = "ORD-001"
    /\ Len(notifications) = 2

\* ------------------------------------------------------------------------
\* The query run: getOrders with many queries, on the seed store and on the
\* stores one reaches by creating, updating and deleting orders.
\* ------------------------------------------------------------------------

\* the keys OrderQuerySchema accepts for sortBy
SortKeys == {"orderId", "customerName", "orderAmount", "orderDate", "status"}

\* queries without filter, one for each sort key and direction
SortQueries ==
    { Spread(QueryDefaults, [sortBy |-> k, sortOrder |-> d]) :
        k \in SortKeys, d \in {"asc", "desc"} }

\* queries with filters: a status, date bounds that are the orderDate of
\* seed orders, searches that hit an identifier, a name in another case, an
\* e-mail address, and the text "undefined"
FilterQueries ==
    { Spread(QueryDefaults, q) :
        q \in { [status |-> "completed"],
                [status |-> "pending", sortBy |-> "orderAmount"],
                [dateFrom |-> 16845, dateTo |-> 20790],
                [dateFrom |-> 19580],
                [dateTo |-> 17835, sortOrder |-> "asc"],
                [search |-> "ord-00", sortBy |-> "orderId"],
                [search |-> "SMITH", sortBy |-> "customerName"],
                [search |-> "Email.COM", sortBy |-> "status"],
                [search |-> "undefined"],
                [search |-> ""],
                [status |-> "completed", search |-> "i",
                 dateFrom |-> 16845, dateTo |-> 44639,
                 sortBy |-> "orderAmount", sortOrder |-> "desc",
                 limit |-> Whole(1), page |-> Whole(2)] } }

\* queries for the pages 1 to 4, with a whole limit, with the limit 3/2,
\* and the page 1/2
PageQueries ==
    { Spread(QueryDefaults,
             [sortBy |-> "customerName", sortOrder |-> "asc",
              page |-> Whole(k), limit |-> l]) :
        k \in 1..4, l \in {Whole(2), Ratio(3, 2)} }
    \cup { Spread(QueryDefaults, [page |-> Ratio(1, 2), limit |-> Whole(2)]),
           Spread(QueryDefaults, [page |-> Whole(2), limit |-> Whole(100)]) }

QueryInputs == SortQueries \cup FilterQueries \cup PageQueries

QueryOrders ==
    /\ calls < MaxCalls
    /\ \E query \in QueryInputs : GetOrdersCall(query)

QueryNext ==
    \/ CreateOrder
    \/ UpdateOrder
    \/ DeleteOrder
    \/ QueryOrders

QuerySpec == Init /\ [][QueryNext]_vars

\* ------------------------------------------------------------------------
\* The analytics run: enough calls to empty the store.  Orders are deleted
\* and updated at the head of the list; getAnalytics is called in between.
\* ------------------------------------------------------------------------

AnalyticsDeleteOrder ==
    /\ calls < AnalyticsCalls
    /\ orders # <<>>
    /\ LET orderId == orders[1].orderId
       IN  /\ orders' = deleteOrder(orders, orderId)
           /\ call' = [op |-> "deleteOrder", orderId |-> orderId]
           /\ result' = [ok |-> FindIndex(orders, orderId) # 0]
    /\ calls' = calls + 1
    /\ UNCHANGED <<notifications, uuids, now, ticks,
                   inflight, layout, network>>

AnalyticsUpdateOrder ==
    /\ calls < AnalyticsCalls
    /\ orders # <<>>
    /\ \E status \in {"completed", "cancelled"} :
          LET orderId == orders[1].orderId
              updateData == [status |-> status]
              after == updateOrder(ServiceState, orderId, updateData, now)
          IN  /\ orders' = after.orders
              /\ notifications' = after.notifications
              /\ uuids' = after.uuids
              /\ call' = [op |-> "updateOrder", orderId |-> orderId,
                          updateData |-> updateData]
              /\ result' = after.ret
    /\ calls' = calls + 1
    /\ UNCHANGED <<now, ticks, inflight, layout, network>>

AnalyticsGetAnalytics ==
    /\ calls < AnalyticsCalls
    /\ call' = [op |-> "getAnalytics"]
    /\ result' = getAnalytics(orders)
    /\ calls' = calls + 1
    /\ UNCHANGED <<orders, notifications, uuids, now, ticks,
                   inflight, layout, network>>

AnalyticsNext ==
    \/ AnalyticsDeleteOrder
    \/ AnalyticsUpdateOrder
    \/ AnalyticsGetAnalytics

AnalyticsSpec == Init /\ [][AnalyticsNext]_vars

\* ------------------------------------------------------------------------
\* The monthly run: the clock may pass into the next month, orders are
\* created, the newest order is updated or deleted, and getAnalytics is
\* called in between.
\* ------------------------------------------------------------------------

\* requests accepted by CreateOrderSchema that the monthly run issues:
\* amounts of 0.30 and of 250.00
MonthlyCreateRequests ==
    { [customerName |-> "Ann Lee", orderAmount |-> 30],
      [customerName |-> "Mike Johnson", orderAmount |-> 25000] }

MonthlyCreateOrder ==
    /\ calls < MonthlyCalls
    /\ \E orderData \in MonthlyCreateRequests :
          LET newOrder == NewOrder(orders, orderData, Null, now)
          IN  /\ orders' = <<newOrder>> \o orders
              /\ notifications' =
                    createNotification(
                        notifications,
                        [type |-> "order_created",
                         title |-> "New Order Created",
                         message |-> "Order " \o newOrder.orderId
                                     \o " has been created for "
                                     \o orderData.customerName,
                         orderId |-> newOrder.orderId],
                        Uuid(uuids + 1), now)
              /\ uuids' = uuids + 1
              /\ call' = [op |-> "createOrder", orderData |-> orderData,
                          invoiceFile |-> Null]
              /\ result' = newOrder
    /\ calls' = calls + 1
    /\ UNCHANGED <<now, ticks, inflight, layout, network>>

MonthlyUpdateOrder ==
    /\ calls < MonthlyCalls
    /\ orders # <<>>
    /\ \E status \in {"completed", "processing"} :
          LET orderId == orders[1].orderId
              updateData == [status |-> status]
              after == updateOrder(ServiceState, orderId, updateData, now)
          IN  /\ orders' = after.orders
              /\ notifications' = after.notifications
              /\ uuids' = after.uuids
              /\ call' = [op |-> "updateOrder", orderId |-> orderId,
                          updateData |-> updateData]
              /\ result' = after.ret
    /\ calls' = calls + 1
    /\ UNCHANGED <<now, ticks, inflight, layout, network>>

MonthlyDeleteOrder ==
    /\ calls < MonthlyCalls
    /\ orders # <<>>
    /\ LET orderId == orders[1].orderId
       IN  /\ orders' = deleteOrder(orders, orderId)
           /\ call' = [op |-> "deleteOrder", orderId |-> orderId]
           /\ result' = [ok |-> FindIndex(orders, orderId) # 0]
    /\ calls' = calls + 1
    /\ UNCHANGED <<notifications, uuids, now, ticks,
                   inflight, layout, network>>

MonthlyGetAnalytics ==
    /\ calls < MonthlyCalls
    /\ call' = [op |-> "getAnalytics"]
    /\ result' = getAnalytics(orders)
    /\ calls' = calls + 1
    /\ UNCHANGED <<orders, notifications, uuids, now, ticks,
                   inflight, layout, network>>

MonthlyNext ==
    \/ MonthlyCreateOrder
    \/ MonthlyUpdateOrder
    \/ MonthlyDeleteOrder
    \/ MonthlyGetAnalytics
    \/ Tick

MonthlySpec == Init /\ [][MonthlyNext]_vars

\* ------------------------------------------------------------------------
\* The customers run: enough customers for the list of top customers to be
\* cut.  The first NewCustomerCalls calls create one order each, of a
\* customer not seen before; the calls after them are chosen freely.
\* ------------------------------------------------------------------------

\* the customer of the k-th leading createOrder
NewCustomer(k) == "Customer " \o ToString(k)

\* requests accepted by CreateOrderSchema that the customers run issues
\* after the leading ones: a known and an unknown customer
CustomerCreateRequests ==
    { [customerName |-> "David Brown", orderAmount |-> 30],
      [customerName |-> "Zoe Young", orderAmount |-> 129999] }

CustomerCreateOrder ==
    /\ calls < CustomerCalls
    /\ \E orderData \in
            IF calls < NewCustomerCalls
            THEN {[customerName |-> NewCustomer(calls + 1),
                   orderAmount |-> 25000]}
            ELSE CustomerCreateRequests :
          LET newOrder == NewOrder(orders, orderData, Null, now)
          IN  /\ orders' = <<newOrder>> \o orders
              /\ notifications' =
                    createNotification(
                        notifications,
                        [type |-> "order_created",
                         title |-> "New Order Created",
                         message |-> "Order " \o newOrder.orderId
                                     \o " has been created for "
                                     \o orderData.customerName,
                         orderId |-> newOrder.orderId],
                        Uuid(uuids + 1), now)
              /\ uuids' = uuids + 1
              /\ call' = [op |-> "createOrder", orderData |-> orderData,
                          invoiceFile |-> Null]
              /\ result' = newOrder
    /\ calls' = calls + 1
    /\ UNCHANGED <<now, ticks, inflight, layout, network>>

\* the newest order, the oldest order or the order of Mike Davis is updated
CustomerUpdateOrder ==
    /\ NewCustomerCalls <= calls
    /\ calls < CustomerCalls
    /\ \E orderId \in {orders[1].orderId, "ORD-005", "ORD-003"},
          updateData \in {[status |-> "completed"],
                          [customerName |-> "John Smith"]} :
          LET after == updateOrder(ServiceState, orderId, updateData, now)
          IN  /\ orders' = after.orders
              /\ notifications' = after.notifications
              /\ uuids' = after.uuids
              /\ call' = [op |-> "updateOrder", orderId |-> orderId,
                          updateData |-> updateData]
              /\ result' = after.ret
    /\ calls' = calls + 1
    /\ UNCHANGED <<now, ticks, inflight, layout, network>>

CustomerGetAnalytics ==
    /\ NewCustomerCalls <= calls
    /\ calls < CustomerCalls
    /\ call' = [op |-> "getAnalytics"]
    /\ result' = getAnalytics(orders)
    /\ calls' = calls + 1
    /\ UNCHANGED <<orders, notifications, uuids, now, ticks,
                   inflight, layout, network>>

CustomerNext ==
    \/ CustomerCreateOrder
    \/ CustomerUpdateOrder
    \/ CustomerGetAnalytics

CustomerSpec == Init /\ [][CustomerNext]_vars

\* ------------------------------------------------------------------------
\* The concurrent run: several requests are under way at once.  The code
\* of a request runs without interruption from one await to the next.
\* createOrder, updateOrder and deleteOrder have no await, so each is one
\* step; bulkUpdateOrders awaits each updateOrder it calls, so it gives
\* way to other requests after each identifier of its list.
\* ------------------------------------------------------------------------

ConcurrentIds == {"ORD-001", "ORD-005"}

ConcurrentRequests ==
    {[status |-> "pending"], [status |-> "completed"], [orderAmount |-> 25000]}

ConcurrentIdLists == { <<"ORD-001", "ORD-005">>, <<"ORD-005">> }

ConcurrentCreateOrder ==
    /\ calls < ConcurrentCalls
    /\ LET orderData == [customerName |-> "Ann Lee", orderAmount |-> 4500]
           newOrder == NewOrder(orders, orderData, Null, now)
       IN  /\ orders' = <<newOrder>> \o orders
           /\ notifications' =
                 createNotification(
                     notifications,
                     [type |-> "order_created",
                      title |-> "New Order Created",
                      message |-> "Order " \o newOrder.orderId
                                  \o " has been created for "
                                  \o orderData.customerName,
                      orderId |-> newOrder.orderId],
                     Uuid(uuids + 1), now)
           /\ uuids' = uuids + 1
           /\ call' = [op |-> "createOrder", orderData |-> orderData,
                       invoiceFile |-> Null]
           /\ result' = newOrder
    /\ calls' = calls + 1
    /\ UNCHANGED <<now, ticks, inflight, layout, network>>

ConcurrentUpdateOrder ==
    /\ calls < ConcurrentCalls
    /\ \E orderId \in ConcurrentIds, updateData \in ConcurrentRequests :
          LET after == updateOrder(ServiceState, orderId, updateData, now)
          IN  /\ orders' = after.orders
              /\ notifications' = after.notifications
              /\ uuids' = after.uuids
              /\ call' = [op |-> "updateOrder", orderId |-> orderId,
                          updateData |-> updateData]
              /\ result' = after.ret
    /\ calls' = calls + 1
    /\ UNCHANGED <<now, ticks, inflight, layout, network>>

\* the order a bulk update comes to last is deleted
ConcurrentDeleteOrder ==
    /\ calls < ConcurrentCalls
    /\ \E orderId \in {"ORD-005"} :
          /\ orders' = deleteOrder(orders, orderId)
          /\ call' = [op |-> "deleteOrder", orderId |-> orderId]
          /\ result' = [ok |-> FindIndex(orders, orderId) # 0]
    /\ calls' = calls + 1
    /\ UNCHANGED <<notifications, uuids, now, ticks, inflight, layout, network>>

\* bulkUpdateOrders is called: it runs up to the await of the updateOrder
\* it calls for the first identifier
BulkUpdateOrdersStart ==
    /\ calls < ConcurrentCalls
    /\ \E orderIds \in ConcurrentIdLists, updateData \in ConcurrentRequests :
          LET after == updateOrder(ServiceState, orderIds[1], updateData, now)
          IN  /\ orders' = after.orders
              /\ notifications' = after.notifications
              /\ uuids' = after.uuids
              /\ inflight' =
                    Append(inflight,
                           [orderIds |-> orderIds, updateData |-> updateData,
                            at |-> 1, updated |-> after.ret,
                            updatedOrders |-> <<>>])
              /\ call' = [op |-> "bulkUpdateOrders", orderIds |-> orderIds,
                          updateData |-> updateData, at |-> 1]
              /\ result' = [promise |-> "pending"]
    /\ calls' = calls + 1
    /\ UNCHANGED <<now, ticks, layout, network>>

\* a suspended bulkUpdateOrders goes on after its await: it pushes the
\* order the awaited updateOrder returned, if any, and then either calls
\* updateOrder for the next identifier and awaits it, or returns its list
BulkUpdateOrdersResume ==
    \E k \in 1..Len(inflight) :
        LET running == inflight[k]
            updatedOrders == IF running.updated # Null
                             THEN Append(running.updatedOrders, running.updated)
                             ELSE running.updatedOrders
        IN  IF running.at < Len(running.orderIds)
            THEN LET after == updateOrder(ServiceState,
                                          running.orderIds[running.at + 1],
                                          running.updateData, now)
                 IN  /\ orders' = after.orders
                     /\ notifications' = after.notifications
                     /\ uuids' = after.uuids
                     /\ inflight' =
                           [inflight EXCEPT ![k] =
                               [running EXCEPT !.at = running.at + 1,
                                               !.updated = after.ret,
                                               !.updatedOrders = updatedOrders]]
                     /\ call' = [op |-> "bulkUpdateOrders",
                                 orderIds |-> running.orderIds,
                                 updateData |-> running.updateData,
                                 at |-> running.at + 1]
                     /\ result' = [promise |-> "pending"]
                     /\ UNCHANGED <<now, calls, ticks, layout, network>>
            ELSE /\ inflight' = SubSeq(inflight, 1, k - 1)
                                  \o SubSeq(inflight, k + 1, Len(inflight))
                 /\ call' = [op |-> "bulkUpdateOrders",
                             orderIds |-> running.orderIds,
                             updateData |-> running.updateData,
                             at |-> 0]
                 /\ result' = [list |-> updatedOrders]
                 /\ UNCHANGED <<orders, notifications, uuids, now, calls,
                                ticks, layout, network>>

ConcurrentNext ==
    \/ ConcurrentCreateOrder
    \/ ConcurrentUpdateOrder
    \/ ConcurrentDeleteOrder
    \/ BulkUpdateOrdersStart
    \/ BulkUpdateOrdersResume

ConcurrentSpec == Init /\ [][ConcurrentNext]_vars

\* ------------------------------------------------------------------------
\* The HTTP routes of the orders: POST /api/orders, PUT /api/orders/:id,
\* POST /api/orders/bulk-update and DELETE /api/orders/:id.  A request body
\* is a record of values as the body parser delivers them, each with its
\* JavaScript type; the handlers validate it with the schemas.
\* ------------------------------------------------------------------------

\* a value of a request body
JsonNumber(n) == [type |-> "number", value |-> n]

JsonString(s) == [type |-> "string", value |-> s]

\* the keys of CreateOrderSchema (customerEmail apart, which no body of the
\* model carries)
CreateOrderSchema ==
    [required |-> {"customerName", "orderAmount"},
     optional |-> {"description", "paymentMethod", "shippingAddress"}]

\* the keys of UpdateOrderSchema (customerEmail and notes apart, which no
\* body of the model carries)
UpdateOrderSchema ==
    [required |-> {},
     optional |-> {"customerName", "orderAmount", "description", "status",
                   "paymentMethod", "shippingAddress"}]

\* the schema of one key accepts the value: z.string().min(1) for
\* customerName, z.number().positive() for orderAmount, the enum for
\* status, z.string() for the others
FieldAccepts(key, v) ==
    IF key = "customerName" THEN v.type = "string" /\ Len(v.value) >= 1
    ELSE IF key = "orderAmount" THEN v.type = "number" /\ v.value > 0
    ELSE IF key = "status" THEN v.type = "string" /\ v.value \in OrderStatus
    ELSE v.type = "string"

\* schema.safeParse(body): success, and in data the values of the keys of
\* the schema that the body carries; keys the schema does not know are
\* dropped.
SafeParse(schema, body) ==
    IF /\ schema.required \subseteq DOMAIN body
       /\ \A key \in DOMAIN body \cap (schema.required \cup schema.optional) :
             FieldAccepts(key, body[key])
    THEN [success |-> TRUE,
          data |-> [key \in DOMAIN body
                               \cap (schema.required \cup schema.optional)
                      |-> body[key].value]]
    ELSE [success |-> FALSE]

\* bodies of POST /api/orders: accepted ones, one with keys the schema does
\* not know, and bodies with an empty name, an amount of 0, a negative
\* amount, no name, and (as a multipart form delivers it) an amount that
\* is a string
CreateBodies ==
    { [customerName |-> JsonString("Ann Lee"),
       orderAmount |-> JsonNumber(4500)],
      [customerName |-> JsonString("Ann Lee"),
       orderAmount |-> JsonNumber(4500),
       orderId |-> JsonString("ORD-001"), status |-> JsonString("shipped")],
      [customerName |-> JsonString(""), orderAmount |-> JsonNumber(4500)],
      [customerName |-> JsonString("Ann Lee"), orderAmount |-> JsonNumber(0)],
      [customerName |-> JsonString("Ann Lee"),
       orderAmount |-> JsonNumber(-4500)],
      [orderAmount |-> JsonNumber(4500)],
      [customerName |-> JsonString("Ann Lee"),
       orderAmount |-> JsonString("45")] }

\* bodies of PUT /api/orders/:id and the updateData of bulk updates
UpdateBodies ==
    { NoFields,
      [status |-> JsonString("completed")],
      [status |-> JsonString("shipped")],
      [orderAmount |-> JsonNumber(0)],
      [orderAmount |-> JsonNumber(-1)],
      [customerName |-> JsonString("")],
      [customerName |-> JsonString("Bo"), orderAmount |-> JsonNumber(25000)],
      [status |-> JsonString("pending"), orderId |-> JsonString("ORD-404")] }

\* bodies of POST /api/orders/bulk-update: with a list of identifiers and
\* an updateData, with an empty list, without orderIds, without updateData
BulkBodies ==
    { [orderIds |-> << "ORD-005", "ORD-404", "ORD-001" >>,
       updateData |-> updateData] : updateData \in UpdateBodies }
    \cup { [orderIds |-> << >>, updateData |-> updateData] :
               updateData \in UpdateBodies }
    \cup { [updateData |-> updateData] : updateData \in UpdateBodies }
    \cup { [orderIds |-> << "ORD-005", "ORD-404", "ORD-001" >>] }

\* the :id of the routes
RouteIds == {"ORD-001", "ORD-404"}

\* the service state and the response when a handler answers without
\* calling the service
Answer(status) ==
    /\ result' = [status |-> status, success |-> FALSE]
    /\ UNCHANGED <<orders, notifications, uuids>>

\* POST /api/orders
PostOrder ==
    /\ calls < HttpCalls
    /\ \E body \in CreateBodies, invoiceFile \in InvoiceFiles :
          LET validationResult == SafeParse(CreateOrderSchema, body)
          IN  /\ call' = [op |-> "POST /api/orders", body |-> body,
                          invoiceFile |-> invoiceFile]
              /\ IF ~validationResult.success
                 THEN Answer(400)
                 ELSE LET orderData == validationResult.data
                          newOrder == NewOrder(orders, orderData,
                                               invoiceFile, now)
                      IN  /\ orders' = <<newOrder>> \o orders
                          /\ notifications' =
                                createNotification(
                                    notifications,
                                    [type |-> "order_created",
                                     title |-> "New Order Created",
                                     message |-> "Order " \o newOrder.orderId
                                           \o " has been created for "
                                           \o orderData.customerName,
                                     orderId |-> newOrder.orderId],
                                    Uuid(uuids + 1), now)
                          /\ uuids' = uuids + 1
                          /\ result' = [status |-> 201, success |-> TRUE,
                                        data |-> newOrder]
    /\ calls' = calls + 1
    /\ UNCHANGED <<now, ticks, inflight, layout, network>>

\* PUT /api/orders/:id
PutOrder ==
    /\ calls < HttpCalls
    /\ \E id \in RouteIds, body \in UpdateBodies :
          LET validationResult == SafeParse(UpdateOrderSchema, body)
          IN  /\ call' = [op |-> "PUT /api/orders/:id", id |-> id,
                          body |-> body]
              /\ IF ~validationResult.success
                 THEN Answer(400)
                 ELSE LET after == updateOrder(ServiceState, id,
                                               validationResult.data, now)
                      IN  /\ orders' = after.orders
                          /\ notifications' = after.notifications
                          /\ uuids' = after.uuids
                          /\ result' =
                                IF after.ret = Null
                                THEN [status |-> 404, success |-> FALSE]
                                ELSE [status |-> 200, success |-> TRUE,
                                      data |-> after.ret]
    /\ calls' = calls + 1
    /\ UNCHANGED <<now, ticks, inflight, layout, network>>

\* POST /api/orders/bulk-update
PostBulkUpdate ==
    /\ calls < HttpCalls
    /\ \E body \in BulkBodies :
          LET \* of a body without updateData, undefined is validated
              validationResult ==
                  IF "updateData" \in DOMAIN body
                  THEN SafeParse(UpdateOrderSchema, body.updateData)
                  ELSE [success |-> FALSE]
          IN  /\ call' = [op |-> "POST /api/orders/bulk-update",
                          body |-> body]
              /\ IF "orderIds" \notin DOMAIN body \/ Len(body.orderIds) = 0
                 THEN Answer(400)
                 ELSE IF ~validationResult.success
                 THEN Answer(400)
                 ELSE LET after == bulkUpdateOrders(ServiceState,
                                                    body.orderIds,
                                                    validationResult.data,
                                                    now)
                      IN  /\ orders' = after.orders
                          /\ notifications' = after.notifications
                          /\ uuids' = after.uuids
                          /\ result' = [status |-> 200, success |-> TRUE,
                                        data |-> after.ret]
    /\ calls' = calls + 1
    /\ UNCHANGED <<now, ticks, inflight, layout, network>>

\* DELETE /api/orders/:id
DeleteOrderRoute ==
    /\ calls < HttpCalls
    /\ \E id \in RouteIds :
          /\ call' = [op |-> "DELETE /api/orders/:id", id |-> id]
          /\ orders' = deleteOrder(orders, id)
          /\ result' = IF FindIndex(orders, id) = 0
                       THEN [status |-> 404, success |-> FALSE]
                       ELSE [status |-> 200, success |-> TRUE]
    /\ calls' = calls + 1
    /\ UNCHANGED <<notifications, uuids, now, ticks, inflight, layout, network>>

HttpNext ==
    \/ PostOrder
    \/ PutOrder
    \/ PostBulkUpdate
    \/ DeleteOrderRoute

HttpSpec == Init /\ [][HttpNext]_vars

\* ------------------------------------------------------------------------
\* C11
\* ------------------------------------------------------------------------

Min(a, b) == IF a < b THEN a ELSE b

\* a notification with its read flag masked
SameButRead(n) == [n EXCEPT !.read = FALSE]

\* C11: after every step the notification list holds at most 100
\* notifications, namely the min(100, n) most recently emitted ones, newest
\* first, where n is the number of notifications emitted so far (uuidv4()
\* hands out one identifier per emission, the k-th being Uuid(k)); the
\* notifications that stay are the ones that were there, moved down by the
\* number of emissions of the step.  The trim is part of the step that
\* inserts, so no state between two operations holds 101 notifications.
C11_NotificationRing ==
    [][LET emitted == uuids' - uuids
       IN  /\ Len(notifications') <= 100
           /\ Len(notifications') = Min(100, uuids')
           /\ \A i \in 1..Len(notifications') :
                 /\ notifications'[i].id = Uuid(uuids' - i + 1)
                 /\ i > emitted =>
                       SameButRead(notifications'[i])
                           = SameButRead(notifications[i - emitted])
                 /\ i <= emitted => ~notifications'[i].read]_vars

\* a creation has pushed the two oldest notifications out of a full list
C11_Witness ==
    /\ call.op = "createOrder"
    /\ uuids = 102
    /\ Len(notifications) = 100
    /\ notifications[1].type = "order_created"
    /\ notifications[100].id = Uuid(3)

\* ------------------------------------------------------------------------
\* C12
\* ------------------------------------------------------------------------

\* the search text, in lower case, is part of the identifier, of the name
\* or of the e-mail address (when the order has one), in lower case
SearchHit(order, search) ==
    \E f \in {"orderId", "customerName", "customerEmail"} :
        /\ order[f] # Undefined
        /\ Includes(ToLowerCase(order[f]), ToLowerCase(search))

\* the order satisfies every filter the query supplies
Satisfies(order, query) ==
    /\ "status" \in DOMAIN query => order.status = query.status
    /\ "dateFrom" \in DOMAIN query => query.dateFrom <= order.orderDate
    /\ "dateTo" \in DOMAIN query => order.orderDate <= query.dateTo
    /\ "search" \in DOMAIN query => SearchHit(order, query.search)

\* the query with another page, limit, sort key and sort direction
Repaged(query) ==
    [query EXCEPT !.page = Whole(3), !.limit = Ratio(3, 2),
                  !.sortBy = "status", !.sortOrder = "asc"]

\* C12: the total getOrders returns is the number of stored orders that
\* satisfy all supplied filters (status, inclusive date bounds, search); it
\* is the same for another page, limit, sortBy and sortOrder; and every
\* order of the returned page satisfies the filters.
C12_TotalCountsFiltered ==
    [][Called("getOrders") =>
         LET query == call'.query
         IN  /\ result'.total =
                   Cardinality({i \in 1..Len(orders) :
                                   Satisfies(orders[i], query)})
             /\ getOrders(orders, Repaged(query)).total = result'.total
             /\ \A i \in 1..Len(result'.orders) :
                   Satisfies(result'.orders[i], query)]_vars

\* a query with all filters kept two of the five seed orders, and its page
\* shows the one whose orderDate is the lower bound itself
C12_Witness ==
    /\ call.op = "getOrders"
    /\ {"status", "search", "dateFrom", "dateTo"} \subseteq DOMAIN call.query
    /\ Len(orders) = 5
    /\ result.total = 2
    /\ Len(result.orders) = 1
    /\ result.orders[1].orderDate = call.query.dateFrom

\* ------------------------------------------------------------------------
\* C13
\* ------------------------------------------------------------------------

\* ceil(total / limit)
TotalPages(total, limit) ==
    (total * limit.den + limit.num - 1) \div limit.num

\* the whole filtered and sorted list, as the one page of limit 100 shows it
FullList(os, query) ==
    getOrders(os, [query EXCEPT !.page = Whole(1), !.limit = Whole(100)]).orders

\* the pages k .. last of the query, one after another
RECURSIVE PagesFrom(_, _, _, _)
PagesFrom(os, query, k, last) ==
    IF k > last THEN <<>>
    ELSE getOrders(os, [query EXCEPT !.page = Whole(k)]).orders
             \o PagesFrom(os, query, k + 1, last)

\* C13: for a query whose page k is one of 1 .. ceil(total/limit), the page
\* starts at index (k-1)*limit of the full filtered and sorted list, holds
\* exactly limit orders unless it is the last page, and the pages
\* 1 .. ceil(total/limit) one after another are exactly that list.
C13_PaginationComplete ==
    [][Called("getOrders") =>
         LET query == call'.query
             limit == query.limit
             k == query.page.num
             total == result'.total
             page == result'.orders
             last == TotalPages(total, limit)
             full == FullList(orders, query)
         IN  (query.page.den = 1 /\ k <= last /\ total <= 100) =>
                 /\ \E startIndex \in 0..total :
                       /\ startIndex * limit.den = (k - 1) * limit.num
                       /\ page = SubSeq(full, startIndex + 1,
                                        startIndex + Len(page))
                       /\ k = last => Len(page) = total - startIndex
                 /\ k < last => Len(page) * limit.den = limit.num
                 /\ PagesFrom(orders, query, 1, last) = full]_vars

\* the same for whole limits only
C13_WholeLimit ==
    [][Called("getOrders") =>
         LET query == call'.query
             limit == query.limit
             k == query.page.num
             total == result'.total
             page == result'.orders
             last == TotalPages(total, limit)
             full == FullList(orders, query)
         IN  (query.page.den = 1 /\ k <= last /\ total <= 100
              /\ limit.den = 1) =>
                 /\ \E startIndex \in 0..total :
                       /\ startIndex * limit.den = (k - 1) * limit.num
                       /\ page = SubSeq(full, startIndex + 1,
                                        startIndex + Len(page))
                       /\ k = last => Len(page) = total - startIndex
                 /\ k < last => Len(page) * limit.den = limit.num
                 /\ PagesFrom(orders, query, 1, last) = full]_vars

\* ------------------------------------------------------------------------
\* C14
\* ------------------------------------------------------------------------

\* C14: getOrders leaves the order list (contents and order) and the
\* notification list as they are, and a query that repeats the query of the
\* call just before it returns the same orders in the same order and the
\* same total.
C14_QueryReadOnly ==
    [][Called("getOrders") =>
         /\ orders' = orders
         /\ notifications' = notifications
         /\ (call.op = "getOrders" /\ call.query = call'.query) =>
               result' = result]_vars

\* the second of two calls was a query, sorted by name, of the untouched
\* seed store (which is not in the order of the names)
C14_Witness ==
    /\ calls = 2
    /\ call.op = "getOrders"
    /\ call.query.sortBy = "customerName"
    /\ orders = sampleOrders
    /\ notifications = <<>>
    /\ result.total = 5
    /\ result.orders # sampleOrders

\* ------------------------------------------------------------------------
\* C15
\* ------------------------------------------------------------------------

\* the value a comes before the value b in the order of the sort key:
\* numeric for orderAmount, chronological for orderDate, by code units for
\* the string keys
Before(sortBy, a, b) ==
    IF sortBy \in {"orderAmount", "orderDate"} THEN a < b
    ELSE StringLess(a, b)

\* the orders of the list whose sort key has the value v, in list order
WithKey(list, sortBy, v) ==
    LET Keep(o) == o[sortBy] = v
    IN  SelectSeq(list, Keep)

\* the stored orders that satisfy the filters of the query, in store order
Kept(os, query) ==
    LET Keep(o) == Satisfies(o, query)
    IN  SelectSeq(os, Keep)

\* C15: the list getOrders paginates is ordered by the sort key, never
\* descending for sortOrder asc and never ascending for desc, and for both
\* directions the orders with one and the same key value stand in the
\* order they have in the store.
C15_Sorted ==
    [][Called("getOrders") =>
         LET query == call'.query
             sortBy == query.sortBy
         IN  \A list \in {FullList(orders, query)},
                kept \in {Kept(orders, query)} :
                /\ \A i, j \in 1..Len(list) :
                      i < j =>
                        IF query.sortOrder = "asc"
                        THEN ~Before(sortBy, list[j][sortBy], list[i][sortBy])
                        ELSE ~Before(sortBy, list[i][sortBy], list[j][sortBy])
                /\ \A i \in 1..Len(list) :
                      WithKey(list, sortBy, list[i][sortBy])
                          = WithKey(kept, sortBy, list[i][sortBy])]_vars

\* a query sorted by descending amount returned the new order ORD-006 right
\* before the seed order ORD-004 of the same amount, as they are stored
C15_Witness ==
    /\ call.op = "getOrders"
    /\ call.query.sortBy = "orderAmount"
    /\ call.query.sortOrder = "desc"
    /\ \E i \in 1..(Len(result.orders) - 1) :
          /\ result.orders[i].orderAmount = result.orders[i + 1].orderAmount
          /\ result.orders[i].orderId = "ORD-006"
          /\ result.orders[i + 1].orderId = "ORD-004"

\* ------------------------------------------------------------------------
\* C16
\* ------------------------------------------------------------------------

\* the query without its search text
WithoutSearch(query) == [f \in DOMAIN query \ {"search"} |-> query[f]]

\* the text t, in lower case, is part of the string s, in lower case
PartOf(t, s) == Includes(ToLowerCase(s), ToLowerCase(t))

\* C16: when the query has a search text, getOrders keeps a stored order
\* (that passes the other filters) if and only if the text is, without
\* regard to case, part of its orderId, its customerName or its
\* customerEmail; an order without customerEmail is kept only when its
\* orderId or its customerName matches.
C16_Search ==
    [][(Called("getOrders") /\ "search" \in DOMAIN call'.query) =>
         LET query == call'.query
             search == query.search
         IN  \A list \in {FullList(orders, query)}, i \in 1..Len(orders) :
               LET order == orders[i]
                   kept == \E j \in 1..Len(list) : list[j] = order
               IN  Satisfies(order, WithoutSearch(query)) =>
                     /\ kept <=>
                           \/ PartOf(search, order.orderId)
                           \/ PartOf(search, order.customerName)
                           \/ /\ order.customerEmail # Undefined
                              /\ PartOf(search, order.customerEmail)
                     /\ (kept /\ order.customerEmail = Undefined) =>
                           \/ PartOf(search, order.orderId)
                           \/ PartOf(search, order.customerName)]_vars

\* the search for "undefined" found nothing in a store that holds an order
\* without e-mail address
C16_Witness ==
    /\ call.op = "getOrders"
    /\ "search" \in DOMAIN call.query
    /\ call.query.search = "undefined"
    /\ \E i \in 1..Len(orders) : orders[i].customerEmail = Undefined
    /\ result.total = 0

\* the search for "Email.COM" found, by their e-mail addresses written in
\* lower case, all stored orders but the one without e-mail address
C16_WitnessCase ==
    /\ call.op = "getOrders"
    /\ "search" \in DOMAIN call.query
    /\ call.query.search = "Email.COM"
    /\ \E i \in 1..Len(orders) : orders[i].customerEmail = Undefined
    /\ result.total = Len(orders) - 1

\* ------------------------------------------------------------------------
\* C17
\* ------------------------------------------------------------------------

\* the number of stored orders whose status is st
CountStatus(os, st) == Cardinality({i \in 1..Len(os) : os[i].status = st})

\* the quotient r is the number 0
IsZero(r) == r.num = 0 /\ r.den > 0

\* the quotient r is the number n / d (d > 0)
IsQuotient(r, n, d) == r.den > 0 /\ r.num * d = n * r.den

\* C17: getAnalytics returns a statusBreakdown with exactly the four
\* status keys, whose values sum to totalOrders, which is the number of
\* stored orders; completionRate is completedCount / totalOrders * 100, and
\* 0 when the store is empty.
C17_AnalyticsConsistent ==
    [][Called("getAnalytics") =>
         LET breakdown == result'.statusBreakdown
         IN  /\ DOMAIN breakdown
                   = {"pending", "processing", "completed", "cancelled"}
             /\ breakdown.pending + breakdown.processing
                   + breakdown.completed + breakdown.cancelled
                   = result'.totalOrders
             /\ result'.totalOrders = Len(orders)
             /\ IF Len(orders) = 0
                THEN IsZero(result'.completionRate)
                ELSE IsQuotient(result'.completionRate,
                                CountStatus(orders, "completed") * 100,
                                Len(orders))]_vars

\* getAnalytics was called on the store emptied by five deletions
C17_Witness ==
    /\ call.op = "getAnalytics"
    /\ orders = <<>>
    /\ result.totalOrders = 0
    /\ result.statusBreakdown.completed = 0
    /\ IsZero(result.completionRate)

\* getAnalytics was called on a store of four orders, two of them
\* completed: the rate is 50
C17_WitnessRate ==
    /\ call.op = "getAnalytics"
    /\ Len(orders) = 4
    /\ orders[1].status = "completed"
    /\ result.statusBreakdown.completed = 2
    /\ IsQuotient(result.completionRate, 50, 1)

\* ------------------------------------------------------------------------
\* C18
\* ------------------------------------------------------------------------

\* the stored orders whose status is completed, in store order
Completed(os) ==
    LET Keep(o) == o.status = "completed"
    IN  SelectSeq(os, Keep)

\* the sum of the amounts of the first n orders of the list, added one by
\* one in list order
RECURSIVE AmountsAdded(_, _)
AmountsAdded(os, n) ==
    IF n = 0 THEN Zero
    ELSE NumberSum(AmountsAdded(os, n - 1), NumberOfCents(os[n].orderAmount))

\* C18: totalRevenue of getAnalytics is the sum of orderAmount over exactly
\* the stored orders whose status is completed (added in store order); the
\* orders of another status add nothing, so that an order which updateOrder
\* moves into or out of completed is counted from then on or no more.
C18_RevenueOfCompleted ==
    [][/\ Called("getAnalytics") =>
            result'.totalRevenue
                = AmountsAdded(Completed(orders), Len(Completed(orders)))
       /\ (Called("updateOrder") /\ result' # Null) =>
            getAnalytics(orders').totalRevenue
                = AmountsAdded(Completed(orders'), Len(Completed(orders')))]_vars

\* getAnalytics was called after ORD-001 had left the status completed:
\* of the five orders only ORD-004 counts
C18_Witness ==
    /\ call.op = "getAnalytics"
    /\ Len(orders) = 5
    /\ orders[1].orderId = "ORD-001"
    /\ orders[1].status = "cancelled"
    /\ result.totalRevenue = NumberOfCents(79999)

\* ------------------------------------------------------------------------
\* C19
\* ------------------------------------------------------------------------

\* C19: averageOrderValue of getAnalytics is the revenue of the completed
\* orders divided by the number of all stored orders, and not by the number
\* of completed orders; it is 0 when the store is empty.
C19_AverageOverAllOrders ==
    [][Called("getAnalytics") =>
         LET average == result'.averageOrderValue
             revenue == AmountsAdded(Completed(orders), Len(Completed(orders)))
         IN  IF Len(orders) = 0
             THEN average.num = Zero /\ average.den > 0
             ELSE /\ average.num = revenue
                  /\ average.den = Len(orders)]_vars

\* getAnalytics was called on the seed store: two of the five orders are
\* completed and the average is 2099.98 / 5
C19_Witness ==
    /\ call.op = "getAnalytics"
    /\ orders = sampleOrders
    /\ result.totalRevenue = NumberOfCents(209998)
    /\ result.averageOrderValue = Ratio(NumberOfCents(209998), 5)
    /\ Len(Completed(orders)) = 2

\* getAnalytics was called on the emptied store: the average is 0
C19_WitnessEmpty ==
    /\ call.op = "getAnalytics"
    /\ orders = <<>>
    /\ result.averageOrderValue.num = Zero

\* ------------------------------------------------------------------------
\* C20
\* ------------------------------------------------------------------------

\* the stored orders whose orderDate lies in the month of key month, in
\* store order
OfMonth(os, month) ==
    LET Keep(o) == MonthKey(o.orderDate) = month
    IN  SelectSeq(os, Keep)

\* the sum of the orders fields of the first n entries
RECURSIVE OrdersAdded(_, _)
OrdersAdded(entries, n) ==
    IF n = 0 THEN 0 ELSE OrdersAdded(entries, n - 1) + entries[n].orders

\* the sum of the revenue fields of the first n entries, added one by one
\* in list order
RECURSIVE RevenuesAdded(_, _)
RevenuesAdded(entries, n) ==
    IF n = 0 THEN Zero
    ELSE NumberSum(RevenuesAdded(entries, n - 1), entries[n].revenue)

\* revenueByMonth of the analytics has one entry for each month that has a
\* stored order and no other, in strictly ascending order of the month key;
\* an entry counts all orders of its month and adds up the amounts of the
\* completed ones; the orders fields add up to totalOrders
MonthsConsistent(os, analytics) ==
    LET months == analytics.revenueByMonth
    IN  /\ {months[i].month : i \in 1..Len(months)}
              = {MonthKey(os[i].orderDate) : i \in 1..Len(os)}
        /\ \A i \in 1..(Len(months) - 1) :
              StringLess(months[i].month, months[i + 1].month)
        /\ \A i \in 1..Len(months) :
              LET ofMonth == OfMonth(os, months[i].month)
              IN  /\ months[i].orders = Len(ofMonth)
                  /\ months[i].revenue
                        = AmountsAdded(Completed(ofMonth),
                                       Len(Completed(ofMonth)))
        /\ OrdersAdded(months, Len(months)) = analytics.totalOrders

\* C20: revenueByMonth of getAnalytics has exactly one entry per calendar
\* month that has a stored order, in strictly ascending order of the month
\* key; each entry counts all orders of its month and sums the amounts of
\* its completed orders; the orders fields sum to totalOrders and the
\* revenue fields sum to totalRevenue.
C20_RevenueByMonth ==
    [][Called("getAnalytics") =>
         /\ MonthsConsistent(orders, result')
         /\ RevenuesAdded(result'.revenueByMonth,
                          Len(result'.revenueByMonth))
               = result'.totalRevenue]_vars

\* C20 without its last part: all of it but the sum of the revenue fields
C20_MonthsConsistent ==
    [][Called("getAnalytics") => MonthsConsistent(orders, result')]_vars

\* getAnalytics was called on a store with orders of two months, the one of
\* February completed
C20_TwoMonths ==
    /\ call.op = "getAnalytics"
    /\ Len(result.revenueByMonth) = 2
    /\ result.revenueByMonth[1].month = "2024-01"
    /\ result.revenueByMonth[2].month = "2024-02"
    /\ result.revenueByMonth[2].revenue # Zero

\* ------------------------------------------------------------------------
\* C21
\* ------------------------------------------------------------------------

\* the stored orders of the customer, in store order
OfCustomer(os, customerName) ==
    LET Keep(o) == o.customerName = customerName
    IN  SelectSeq(os, Keep)

\* the revenue of the customer: the amounts of the customer's completed
\* orders, added one by one in store order
RevenueOf(os, customerName) ==
    AmountsAdded(Completed(OfCustomer(os, customerName)),
                 Len(Completed(OfCustomer(os, customerName))))

\* the position of the first order of the customer in the store
FirstOrderOf(os, customerName) ==
    CHOOSE i \in 1..Len(os) :
        /\ os[i].customerName = customerName
        /\ \A j \in 1..(i - 1) : os[j].customerName # customerName

\* the names of the customers with a stored order
CustomerNames(os) == {os[i].customerName : i \in 1..Len(os)}

\* C21: topCustomers of getAnalytics has one entry per distinct
\* customerName, at most 10 entries, sorted non-increasing by totalRevenue;
\* an entry's totalOrders counts all orders of the customer and its
\* totalRevenue sums the completed ones; customers of equal revenue stand
\* in the order in which their first order is met in the store; and no
\* customer left out has a larger revenue than one of the list.
C21_TopCustomers ==
    [][Called("getAnalytics") =>
         \A top \in {result'.topCustomers}, names \in {CustomerNames(orders)} :
            /\ Len(top) = Min(TopCustomersLimit, Cardinality(names))
            /\ \A i \in 1..Len(top) :
                  /\ top[i].customerName \in names
                  /\ top[i].totalOrders
                        = Len(OfCustomer(orders, top[i].customerName))
                  /\ top[i].totalRevenue
                        = RevenueOf(orders, top[i].customerName)
            /\ \A i, j \in 1..Len(top) :
                  i < j =>
                    /\ top[i].customerName # top[j].customerName
                    /\ ~NumberLess(top[i].totalRevenue, top[j].totalRevenue)
                    /\ top[i].totalRevenue = top[j].totalRevenue =>
                          FirstOrderOf(orders, top[i].customerName)
                              < FirstOrderOf(orders, top[j].customerName)
            /\ \A name \in names \ {top[i].customerName : i \in 1..Len(top)} :
                  \A i \in 1..Len(top) :
                     ~NumberLess(top[i].totalRevenue,
                                 RevenueOf(orders, name))]_vars

\* getAnalytics was called on a store of eleven customers after the order
\* of David Brown, the last in the store, was completed: David Brown heads
\* the ten entries and Mike Davis, of revenue 0, is left out
C21_Witness ==
    /\ call.op = "getAnalytics"
    /\ Cardinality(CustomerNames(orders)) = 11
    /\ Len(result.topCustomers) = 10
    /\ result.topCustomers[1].customerName = "David Brown"
    /\ result.topCustomers[4].totalRevenue = Zero
    /\ result.topCustomers[4].customerName = "Customer 6"
    /\ \A i \in 1..10 : result.topCustomers[i].customerName # "Mike Davis"

\* getAnalytics was called after a second order of David Brown was
\* created: the entry counts both orders of the customer
C21_WitnessGrouped ==
    /\ call.op = "getAnalytics"
    /\ \E i \in 1..Len(result.topCustomers) :
          /\ result.topCustomers[i].customerName = "David Brown"
          /\ result.topCustomers[i].totalOrders = 2

\* ------------------------------------------------------------------------
\* C22
\* ------------------------------------------------------------------------

\* the order was created during the run: the seed orders were created
\* before the service was constructed
CreatedInRun(order) == order.createdAt >= StartTime

\* the position of the seed order in the seed store
SeedPosition(order) ==
    CHOOSE i \in 1..Len(sampleOrders) :
        sampleOrders[i].createdAt = order.createdAt

\* the orders created during the run come first, none created later than
\* the one before it, and the seed orders follow in the order of the seed
\* store
NewestFirst(os) ==
    \E k \in 0..Len(os) :
        /\ \A i \in 1..k : CreatedInRun(os[i])
        /\ \A i \in (k + 1)..Len(os) : ~CreatedInRun(os[i])
        /\ \A i, j \in 1..k : i < j => os[i].createdAt >= os[j].createdAt
        /\ \A i, j \in (k + 1)..Len(os) :
              i < j => SeedPosition(os[i]) < SeedPosition(os[j])

\* C22: createOrder puts the new order in front of the store and leaves the
\* orders stored before as they are and in their order; updateOrder keeps
\* the updated order at its position; so in every state the orders created
\* during the run stand before the seed orders, the most recently created
\* first.
C22_NewestFirst ==
    [][/\ Called("createOrder") => orders' = <<result'>> \o orders
       /\ (Called("updateOrder") /\ result' # Null) =>
            LET at == PositionOf(orders, call'.orderId)
            IN  /\ Len(orders') = Len(orders)
                /\ orders'[at] = result'
                /\ orders'[at].orderId = orders[at].orderId
                /\ orders'[at].createdAt = orders[at].createdAt
                /\ \A i \in 1..Len(orders) : i # at => orders'[i] = orders[i]
       /\ NewestFirst(orders')]_vars

\* two orders were created at different times, the later one stands first,
\* and the five seed orders follow
C22_Witness ==
    /\ call.op = "createOrder"
    /\ Len(orders) = 7
    /\ orders[1] = result
    /\ orders[1].createdAt > orders[2].createdAt
    /\ CreatedInRun(orders[2])
    /\ SubSeq(orders, 3, 7) = sampleOrders

\* the seed order ORD-005 was updated after an order was created: it is
\* still the last order of the store
C22_WitnessUpdate ==
    /\ call.op = "updateOrder"
    /\ call.orderId = "ORD-005"
    /\ Len(orders) = 6
    /\ orders[6] = result
    /\ orders[6] # sampleOrders[5]
    /\ CreatedInRun(orders[1])

\* ------------------------------------------------------------------------
\* C23
\* ------------------------------------------------------------------------

\* C23: with a clock that never goes back, every stored order has
\* updatedAt >= createdAt in every state, and every updateOrder that finds
\* its order, whatever the payload, sets updatedAt to the time of the call,
\* which is not before the updatedAt the order had.
C23_UpdatedAt ==
    [][/\ \A i \in 1..Len(orders) :
             orders[i].updatedAt >= orders[i].createdAt
       /\ \A i \in 1..Len(orders') :
             orders'[i].updatedAt >= orders'[i].createdAt
       /\ (Called("updateOrder") /\ result' # Null) =>
            LET at == PositionOf(orders, call'.orderId)
            IN  /\ orders'[at].updatedAt = now
                /\ result'.updatedAt = now
                /\ orders'[at].updatedAt >= orders[at].updatedAt
       /\ Called("bulkUpdateOrders") =>
            \A k \in 1..Len(result'.list) :
                /\ result'.list[k].updatedAt = now
                /\ \A i \in 1..Len(orders') :
                      orders'[i].orderId = result'.list[k].orderId =>
                          orders'[i].updatedAt >= orders[i].updatedAt]_vars

\* an order created in the run was updated later with a payload without
\* fields: its updatedAt is the later time
C23_Witness ==
    /\ call.op = "updateOrder"
    /\ call.updateData = NoFields
    /\ result # Null
    /\ result.createdAt = StartTime
    /\ result.updatedAt = StartTime + 1
    /\ now = StartTime + 1
    /\ orders[1] = result

\* ------------------------------------------------------------------------
\* C24
\* ------------------------------------------------------------------------

\* the fields no payload accepted by UpdateOrderSchema carries and no update
\* may change
FixedFields ==
    {"orderId", "orderDate", "createdAt", "invoiceFileUrl", "invoiceFileName"}

\* C24: an updateOrder that finds its order changes, of that order, only
\* the fields of the payload, updatedAt and, when the status changes, the
\* notes: every other field keeps its value, among them orderId, orderDate,
\* createdAt, invoiceFileUrl and invoiceFileName; every other order of the
\* store is left as it is.
C24_UpdateFrame ==
    [][(Called("updateOrder") /\ result' # Null) =>
         LET at == PositionOf(orders, call'.orderId)
             updateData == call'.updateData
         IN  /\ Len(orders') = Len(orders)
             /\ DOMAIN orders'[at] = DOMAIN orders[at]
             /\ \A f \in DOMAIN orders[at] :
                   (/\ f \notin DOMAIN updateData
                    /\ f # "updatedAt"
                    /\ ~(f = "notes" /\ AsksOtherStatus(orders, at, updateData)))
                   => orders'[at][f] = orders[at][f]
             /\ FixedFields \cap DOMAIN updateData = {}
             /\ \A f \in FixedFields : orders'[at][f] = orders[at][f]
             /\ \A i \in 1..Len(orders) : i # at => orders'[i] = orders[i]]_vars

\* the amount of the seed order ORD-001 was updated after the clock had
\* advanced: amount and updatedAt are new, everything else is as before
C24_Witness ==
    /\ call.op = "updateOrder"
    /\ call.orderId = "ORD-001"
    /\ call.updateData = [orderAmount |-> 25000]
    /\ result = [sampleOrders[1] EXCEPT !.orderAmount = 25000,
                                        !.updatedAt = StartTime + 1]
    /\ orders = [sampleOrders EXCEPT ![1] = result]

\* ------------------------------------------------------------------------
\* C25
\* ------------------------------------------------------------------------

\* the updateOrder calls this step makes: that of an updateOrder request,
\* or that of a bulkUpdateOrders for the identifier it has come to
UpdatesApplied ==
    IF call'.op = "updateOrder"
    THEN {[orderId |-> call'.orderId, updateData |-> call'.updateData]}
    ELSE IF call'.op = "bulkUpdateOrders" /\ call'.at # 0
    THEN {[orderId |-> call'.orderIds[call'.at],
           updateData |-> call'.updateData]}
    ELSE {}

\* the note is a note of a status change
IsStatusChangeNote(note) ==
    \E from \in OrderStatus, to \in OrderStatus :
        note = StatusChangeNote(from, to)

\* C25: in every interleaving of createOrder, updateOrder, deleteOrder and
\* bulkUpdateOrders requests that give way at their awaits only, an update
\* finds and changes its order in one step: a note "Status changed from X
\* to Y" it appends has for X the status the order has in the store right
\* before the step; the fields the payload does not carry keep the values
\* they have in the store right before the step, whichever request wrote
\* them; and an update of an order that is no longer in the store puts
\* nothing into the store.
C25_FindThenMutateAtomic ==
    [][\A update \in UpdatesApplied :
          IF ~Stored(orders, update.orderId)
          THEN orders' = orders
          ELSE LET at == PositionOf(orders, update.orderId)
                   updateData == update.updateData
               IN  /\ Len(orders') = Len(orders)
                   /\ \A i \in 1..Len(orders) :
                         i # at => orders'[i] = orders[i]
                   /\ \A f \in DOMAIN orders[at] \ {"updatedAt", "notes"} :
                         f \notin DOMAIN updateData
                             => orders'[at][f] = orders[at][f]
                   /\ IF AsksOtherStatus(orders, at, updateData)
                      THEN orders'[at].notes
                              = orders[at].notes \o
                                << StatusChangeNote(orders[at].status,
                                                    updateData.status) >>
                      ELSE orders'[at].notes = orders[at].notes]_vars

\* a bulkUpdateOrders that sets ORD-001 and ORD-005 to completed was under
\* way when another request set ORD-005 to pending; the bulk update then
\* came to ORD-005 and its note names pending as the status left
C25_Witness ==
    /\ call.op = "bulkUpdateOrders"
    /\ call.at = 2
    /\ call.orderIds = <<"ORD-001", "ORD-005">>
    /\ call.updateData = [status |-> "completed"]
    /\ Stored(orders, "ORD-005")
    /\ LET notes == orders[PositionOf(orders, "ORD-005")].notes
       IN  /\ Len(notes) = 5
           /\ notes[4] = StatusChangeNote("cancelled", "pending")
           /\ notes[5] = StatusChangeNote("pending", "completed")

\* a bulkUpdateOrders came to ORD-005 after another request had deleted
\* that order: the store holds no ORD-005
C25_WitnessDeleted ==
    /\ call.op = "bulkUpdateOrders"
    /\ call.at = 2
    /\ call.orderIds[2] = "ORD-005"
    /\ ~Stored(orders, "ORD-005")
    /\ Len(orders) = 4

\* ------------------------------------------------------------------------
\* C26
\* ------------------------------------------------------------------------

\* the stored order has a positive amount, a name that is not empty and
\* one of the four statuses
WellFormed(order) ==
    /\ order.orderAmount > 0
    /\ order.customerName # ""
    /\ order.status \in OrderStatus

\* the payload carries, under one of the keys, a non-positive amount, an
\* empty name or a status outside the four values
Malformed(payload, keys) ==
    \/ /\ "orderAmount" \in DOMAIN payload \cap keys
       /\ payload.orderAmount.type = "number"
       /\ payload.orderAmount.value <= 0
    \/ /\ "customerName" \in DOMAIN payload \cap keys
       /\ payload.customerName.type = "string"
       /\ payload.customerName.value = ""
    \/ /\ "status" \in DOMAIN payload \cap keys
       /\ payload.status.type = "string"
       /\ payload.status.value \notin OrderStatus

\* the create or update payloads of the request, if it has one
PayloadsOf(request) ==
    IF request.op \in {"POST /api/orders", "PUT /api/orders/:id"}
    THEN {request.body}
    ELSE IF /\ request.op = "POST /api/orders/bulk-update"
            /\ "updateData" \in DOMAIN request.body
    THEN {request.body.updateData}
    ELSE {}

\* the keys the schema of the route of the request validates
ValidatedKeys(request) ==
    IF request.op = "POST /api/orders"
    THEN CreateOrderSchema.required \cup CreateOrderSchema.optional
    ELSE UpdateOrderSchema.required \cup UpdateOrderSchema.optional

\* every stored order is well-formed before and after the step
StoreWellFormed ==
    /\ \A i \in 1..Len(orders) : WellFormed(orders[i])
    /\ \A i \in 1..Len(orders') : WellFormed(orders'[i])

\* the request is answered with 400 and nothing is changed
Rejected ==
    /\ result'.status = 400
    /\ orders' = orders
    /\ notifications' = notifications

\* C26: in every state reachable through the routes POST /api/orders, PUT
\* /api/orders/:id, POST /api/orders/bulk-update and DELETE
\* /api/orders/:id, every stored order has a positive amount, a non-empty
\* name and one of the four statuses; a create or update payload with a
\* non-positive amount, an empty name or a status outside the four values
\* is answered with 400 and changes neither the orders nor the
\* notifications.
C26_MalformedRejected ==
    [][/\ StoreWellFormed
       /\ \A payload \in PayloadsOf(call') :
             Malformed(payload, {"orderAmount", "customerName", "status"})
                 => Rejected]_vars

\* C26 for the keys the schema of the route validates: a status is no key
\* of CreateOrderSchema
C26_ValidatedKeysRejected ==
    [][/\ StoreWellFormed
       /\ \A payload \in PayloadsOf(call') :
             Malformed(payload, ValidatedKeys(call')) => Rejected]_vars

\* POST /api/orders with a body that carries the status "shipped" was
\* answered with 201 and the order is stored as pending
C26_StatusIgnored ==
    /\ call.op = "POST /api/orders"
    /\ "status" \in DOMAIN call.body
    /\ call.body.status.value = "shipped"
    /\ result.status = 201
    /\ orders[1] = result.data
    /\ orders[1].status = "pending"

\* PUT /api/orders/:id with the status "shipped" was answered with 400
\* after an order had been created
C26_UpdateRejected ==
    /\ call.op = "PUT /api/orders/:id"
    /\ call.body = [status |-> JsonString("shipped")]
    /\ result.status = 400
    /\ Len(orders) = 6

\* ------------------------------------------------------------------------
\* C27
\* ------------------------------------------------------------------------

\* the list holds a notification with this identifier
InRing(ns, notificationId) ==
    \E i \in 1..Len(ns) : ns[i].id = notificationId

\* C27: markNotificationAsRead(id) of a notification in the list returns
\* true and sets the read flag of that notification and nothing else: the
\* other notifications, the order of the list and the order store stay as
\* they are; a read flag that is true is never false again; and for a
\* notification that was cut from the list the call returns false and
\* changes nothing.
C27_MarkAsRead ==
    [][/\ Called("markNotificationAsRead") =>
            LET id == call'.notificationId
            IN  /\ orders' = orders
                /\ IF InRing(notifications, id)
                   THEN /\ result'.ok
                        /\ Len(notifications') = Len(notifications)
                        /\ \A i \in 1..Len(notifications) :
                              notifications'[i] =
                                 IF notifications[i].id = id
                                 THEN [notifications[i] EXCEPT !.read = TRUE]
                                 ELSE notifications[i]
                   ELSE /\ ~result'.ok
                        /\ notifications' = notifications
       /\ \A i \in 1..Len(notifications), j \in 1..Len(notifications') :
             (notifications'[j].id = notifications[i].id
                 /\ notifications[i].read) => notifications'[j].read]_vars

\* the first notification ever created was marked when the list had its
\* hundred notifications and a read one among them: the call returned true
C27_Witness ==
    /\ call.op = "markNotificationAsRead"
    /\ call.notificationId = Uuid(1)
    /\ result.ok
    /\ Len(notifications) = MaxNotifications
    /\ notifications[MaxNotifications].id = Uuid(1)
    /\ notifications[MaxNotifications].read
    /\ notifications[1].read

\* the first notification ever created was marked after it had been cut
\* from the list: the call returned false
C27_WitnessTrimmed ==
    /\ call.op = "markNotificationAsRead"
    /\ call.notificationId = Uuid(1)
    /\ uuids > MaxNotifications
    /\ ~InRing(notifications, Uuid(1))
    /\ ~result.ok

\* ------------------------------------------------------------------------
\* C28
\* ------------------------------------------------------------------------

\* the step is a deleteOrder that returned true
DeletedOrder == Called("deleteOrder") /\ result'.ok

\* the store after the step is the store before it without the order at
\* one position: one order fewer, the others unchanged and in their order
OneOrderRemoved ==
    \E k \in 1..Len(orders) :
        /\ orders[k].orderId = call'.orderId
        /\ Len(orders') = Len(orders) - 1
        /\ \A i \in 1..Len(orders') :
              orders'[i] = IF i < k THEN orders[i] ELSE orders[i + 1]

\* C28: after deleteOrder(id) returned true, in any state reached by
\* creates, updates and deletes, the store holds one order fewer, every
\* other order is unchanged and in the same relative order,
\* getOrderById(id) returns null and a second deleteOrder(id) returns
\* false.
C28_DeleteOrder ==
    [][DeletedOrder =>
          /\ OneOrderRemoved
          /\ getOrderById(orders', call'.orderId) = Null
          /\ FindIndex(orders', call'.orderId) = 0]_vars

\* C28 without its last two parts: a deleteOrder that returned true took
\* one order with that identifier out of the store and left the others
C28_OneOrderRemoved ==
    [][DeletedOrder => OneOrderRemoved]_vars

\* deleteOrder(id) returned true and an order with that identifier is
\* still stored
C28_StillStored ==
    /\ call.op = "deleteOrder"
    /\ result.ok
    /\ Stored(orders, call.orderId)

\* ------------------------------------------------------------------------
\* C29
\* ------------------------------------------------------------------------

\* the list holds every stored order that satisfies the filters, and is
\* ordered by orderDate, newest first, unless the filters name a sort
ExportsAll(list, os, filters) ==
    /\ \A i \in 1..Len(os) :
          Satisfies(os[i], filters) =>
              \E j \in 1..Len(list) : list[j] = os[i]
    /\ ({"sortBy", "sortOrder"} \cap DOMAIN filters = {}) =>
          \A i, j \in 1..Len(list) :
              i < j => list[i].orderDate >= list[j].orderDate

\* C29: getOrdersForExport(filters) returns all orders that match the
\* filters, for every store and every filters value, filters with a page
\* or a limit of their own included: every stored order that satisfies the
\* status, search and date filters is in the returned list, which is
\* sorted by orderDate descending unless the filters override the sort.
C29_ExportsAll ==
    [][Called("getOrdersForExport") =>
          ExportsAll(result'.list, orders, call'.filters)]_vars

\* C29 for filters without a page and a limit of their own
C29_ExportsAllUnpaged ==
    [][(/\ Called("getOrdersForExport")
        /\ {"page", "limit"} \cap DOMAIN call'.filters = {}) =>
          ExportsAll(result'.list, orders, call'.filters)]_vars

\* getOrdersForExport was called with filters that carry a page and a
\* limit, and a stored order that satisfies the filters is not in the
\* list it returned
C29_ExportCut ==
    /\ call.op = "getOrdersForExport"
    /\ {"page", "limit"} \subseteq DOMAIN call.filters
    /\ \E i \in 1..Len(orders) :
          /\ Satisfies(orders[i], call.filters)
          /\ \A j \in 1..Len(result.list) : result.list[j] # orders[i]

\* ------------------------------------------------------------------------
\* The notification bell of the Layout component, in one browser.  The
\* component keeps the list it shows and the count of its badge; it asks
\* the server for the five newest notifications when it is mounted and
\* every thirty seconds after, and a click on a notification that is shown
\* as unread asks the server to mark it.  A request and its response are
\* under way in network between the step that sends them and the step
\* that handles them; the responses arrive in any order.
\* ------------------------------------------------------------------------

\* the steps one run of the browser starts: orders created, fetches, clicks
ClientCalls == 5

\* getNotifications(5) of the component
LayoutLimit == 5

\* response.data.filter(n => !n.read).length
Unread(ns) == Cardinality({i \in 1..Len(ns) : ~ns[i].read})

\* apiRequest: the body of the response, or the mock data of the endpoint
\* (data: null) when the response is not ok
apiRequest(response) ==
    IF response.status = 200 THEN response.body ELSE [data |-> Null]

\* an order is created on the server, by this browser or another one
ClientCreateOrder ==
    /\ calls < ClientCalls
    /\ LET orderData == [customerName |-> "Ann Lee", orderAmount |-> 4500]
           newOrder == NewOrder(orders, orderData, Null, now)
       IN  /\ orders' = <<newOrder>> \o orders
           /\ notifications' =
                 createNotification(
                     notifications,
                     [type |-> "order_created",
                      title |-> "New Order Created",
                      message |-> "Order " \o newOrder.orderId
                                  \o " has been created for "
                                  \o orderData.customerName,
                      orderId |-> newOrder.orderId],
                     Uuid(uuids + 1), now)
           /\ uuids' = uuids + 1
           /\ call' = [op |-> "createOrder", orderData |-> orderData,
                       invoiceFile |-> Null]
           /\ result' = newOrder
    /\ calls' = calls + 1
    /\ UNCHANGED <<now, ticks, inflight, layout, network>>

\* fetchNotifications, on mount or by the interval, up to its await: the
\* request is sent
FetchNotifications ==
    /\ calls < ClientCalls
    /\ network' = Append(network, [to |-> "server",
                                   op |-> "GET /api/notifications",
                                   limit |-> LayoutLimit])
    /\ call' = [op |-> "fetchNotifications"]
    /\ result' = [promise |-> "pending"]
    /\ calls' = calls + 1
    /\ UNCHANGED <<orders, notifications, uuids, now, ticks, inflight,
                   layout>>

\* the route GET /api/notifications answers one of the requests under way
GetNotificationsRoute ==
    \E i \in 1..Len(network) :
        /\ network[i].to = "server"
        /\ network[i].op = "GET /api/notifications"
        /\ network' =
              [network EXCEPT ![i] =
                  [to |-> "client", op |-> "GET /api/notifications",
                   status |-> 200,
                   body |-> [success |-> TRUE,
                             data |-> SliceTo(notifications,
                                              network[i].limit)]]]
        /\ UNCHANGED <<orders, notifications, uuids, now, ticks, inflight,
                       layout, call, result, calls>>

\* fetchNotifications after its await: the response replaces the list and
\* the count
FetchNotificationsResume ==
    \E i \in 1..Len(network) :
        /\ network[i].to = "client"
        /\ network[i].op = "GET /api/notifications"
        /\ LET response == apiRequest(network[i])
           IN  layout' =
                  IF "success" \in DOMAIN response /\ response.success
                  THEN [notifications |-> response.data,
                        unreadCount |-> Unread(response.data),
                        fetched |-> TRUE]
                  ELSE layout
        /\ network' = Splice1(network, i)
        /\ UNCHANGED <<orders, notifications, uuids, now, ticks, inflight,
                       call, result, calls>>

\* onClick of a notification of the list up to its await: the request to
\* mark it is sent if the list shows it as unread
ClickNotification ==
    /\ calls < ClientCalls
    /\ \E k \in 1..Len(layout.notifications) :
          LET notification == layout.notifications[k]
          IN  /\ network' =
                    IF ~notification.read
                    THEN Append(network,
                                [to |-> "server",
                                 op |-> "PUT /api/notifications/:id/read",
                                 id |-> notification.id])
                    ELSE network
              /\ call' = [op |-> "onClick", id |-> notification.id]
              /\ result' = [promise |-> IF ~notification.read
                                        THEN "pending" ELSE "fulfilled"]
    /\ calls' = calls + 1
    /\ UNCHANGED <<orders, notifications, uuids, now, ticks, inflight,
                   layout>>

\* the route PUT /api/notifications/:id/read answers one of the requests
\* under way
MarkNotificationAsReadRoute ==
    \E i \in 1..Len(network) :
        /\ network[i].to = "server"
        /\ network[i].op = "PUT /api/notifications/:id/read"
        /\ LET id == network[i].id
               updated == \E j \in 1..Len(notifications) :
                              notifications[j].id = id
           IN  /\ notifications' = markNotificationAsRead(notifications, id)
               /\ network' =
                     [network EXCEPT ![i] =
                         [to |-> "client",
                          op |-> "PUT /api/notifications/:id/read",
                          id |-> id,
                          status |-> IF updated THEN 200 ELSE 404,
                          body |-> [success |-> updated]]]
        /\ UNCHANGED <<orders, uuids, now, ticks, inflight, layout, call,
                       result, calls>>

\* onClick after its await: the notification of the click is shown as
\* read and the count goes down by one, not below zero
ClickNotificationResume ==
    \E i \in 1..Len(network) :
        /\ network[i].to = "client"
        /\ network[i].op = "PUT /api/notifications/:id/read"
        /\ layout' =
              [layout EXCEPT
                 !.notifications =
                    [k \in 1..Len(layout.notifications) |->
                        IF layout.notifications[k].id = network[i].id
                        THEN [layout.notifications[k] EXCEPT !.read = TRUE]
                        ELSE layout.notifications[k]],
                 !.unreadCount =
                    IF layout.unreadCount - 1 > 0
                    THEN layout.unreadCount - 1 ELSE 0]
        /\ network' = Splice1(network, i)
        /\ UNCHANGED <<orders, notifications, uuids, now, ticks, inflight,
                       call, result, calls>>

ClientNext ==
    \/ ClientCreateOrder
    \/ FetchNotifications
    \/ GetNotificationsRoute
    \/ FetchNotificationsResume
    \/ ClickNotification
    \/ MarkNotificationAsReadRoute
    \/ ClickNotificationResume

ClientSpec == Init /\ [][ClientNext]_vars

\* ------------------------------------------------------------------------
\* C30
\* ------------------------------------------------------------------------

\* C30: in the notification bell of Layout, after the first successful
\* fetch, the unreadCount of the badge is the number of notifications of
\* the displayed list whose read flag is false, for every interleaving of
\* the responses of the polling, the clicks on notifications (repeated
\* clicks on one notification before its request resolves included) and
\* the responses of the requests to mark as read.
C30_BadgeCountsUnread ==
    layout.fetched => layout.unreadCount = Unread(layout.notifications)

\* the badge shows fewer unread notifications than the list does, after a
\* click whose response has arrived
C30_BadgeTooLow ==
    /\ layout.fetched
    /\ network = <<>>
    /\ layout.unreadCount < Unread(layout.notifications)
    /\ \E k \in 1..Len(layout.notifications) : layout.notifications[k].read

====
